---- MODULE Spec2Model ----
(***************************************************************************)
(* Azure Remote Rendering HoloLens samples.                                *)
(*                                                                         *)
(* Two app shells drive the same remote-rendering glue:                    *)
(*   OpenXr : ImplementOpenXrProgram   (BasicXrApp/OpenXrProgram.cpp)      *)
(*   Holo   : HolographicAppMain       (HoloLens/HolographicAppMain.cpp)   *)
(*                                                                         *)
(* Specification Spec models the remote-rendering glue of both shells: a   *)
(* main thread (pc mainPc) that runs the initialisation and then the       *)
(* per-frame update, and one SDK callback at a time (pc sdkPc) that runs   *)
(* on an SDK thread.  The shared fields are plain fields without any       *)
(* synchronisation, so both threads are interleaved at the statements that *)
(* read or write a shared field.  Each field access is taken to be atomic  *)
(* and sequentially consistent.                                            *)
(*                                                                         *)
(* Specification SpecRun models the OpenXR main loop of OpenXrProgram      *)
(* (Run / ProcessEvents / PrepareSessionRestart) against a runtime that    *)
(* queues events.                                                          *)
(*                                                                         *)
(* SpecDisplay models the StatusDisplay's line list, SpecFrame and         *)
(* SpecAppSpace and SpecPlace parts of the OpenXR main loop, SpecFormats   *)
(* the selection of the swapchain formats, SpecGamepads the gamepad list   *)
(* and SpecLocator the spatial locator of HolographicAppMain.              *)
(***************************************************************************)
EXTENDS Integers, Sequences, FiniteSets, TLC

VARIABLES
    shell,                              \* which app shell runs: "OpenXr" or "Holo"
    mainPc,                             \* position of the main thread
    sdkPc,                              \* position of the SDK callback being run ("idle": none)
    sdkArg,                             \* arguments of the SDK callback being run
    now,                                \* m_timer.GetTotalSeconds(), in whole seconds
    \* ---- fields of the app shell (same names in both shells)
    m_renderingSession,                 \* m_renderingSession (OpenXr) / m_session (Holo)
    m_currentStatus,
    m_statusMsg,
    m_connectionResult,
    m_modelLoadResult,
    m_isConnected,
    m_sessionStarted,
    m_modelLoadTriggered,
    m_sessionPropertiesQueryInProgress, \* OpenXr only
    m_sessionPropertiesAsync,           \* Holo only
    m_modelLoadingProgress,             \* in percent
    m_modelLoadFinished,
    m_needsStatusUpdate,                \* Holo only
    m_timeAtLastRESTCall,
    m_delayBetweenRESTCalls,            \* OpenXr only (a local constant in Holo)
    m_sessionStartingTime,
    m_statusDisplay,
    \* ---- the remote-rendering SDK (black box): what the app has asked of it
    sdkCreatePending,                   \* a create-session request awaits its completion callback
    sdkQueriesInFlight,                 \* GetPropertiesAsync queries whose callback has not finished
    sdkLastQueryTime,                   \* time at which the last GetPropertiesAsync was issued
    sdkConnectCalls,                    \* number of ConnectAsync / ConnectToRuntime requests received
    sdkConnectPending,                  \* a connect request has not yet been acted on
    sdkConn,                            \* the SDK's own RR::ConnectionStatus
    sdkLoadsInFlight,                   \* model loads whose completion callback has not run
    \* ---- OpenXrProgram: the main loop (Run)
    runPc,                              \* position of Run
    m_systemId,
    m_session,
    m_renderResources,                  \* whether the render resources (swapchains) exist
    m_holograms,
    m_mainCubeIndex,
    m_spinningCubeIndex,
    m_sessionRunning,
    m_sessionState,
    exitRenderLoop,                     \* the local of Run's inner loop
    requestRestart,                     \* the local of Run
    \* ---- the OpenXR runtime (black box)
    xrEvents,                           \* the runtime's event queue
    xrEventCount,                       \* number of events the runtime has queued so far
    xrSessionCount,                     \* number of sessions created so far (the last one's handle)
    xrBeginSessionCalls,                \* number of xrBeginSession calls received
    xrEndSessionCalls,                  \* number of xrEndSession calls received
    xrDrained,                          \* the exit events handled by the ProcessEvents call under way
    m_optionalExtensions,               \* the field SpatialAnchorSupported
    xrFailed,                           \* the OpenXR calls that failed in Run's last step
    xrGetSystemRetries,                 \* rounds of InitializeSystem's loop that found no headset
    xrLiveSessions,                     \* the sessions created and not destroyed
    m_appSpace,                         \* the app space: the session it was created for
    m_graphicsBinding,                  \* whether the graphics binding is there
    m_needsCoordinateSystemUpdate,
    sdkAppSpace,                        \* the app space the graphics binding was last given
    xrFrame,                            \* the OpenXR calls of the RenderFrame last made
    xrBegunSessions,                    \* the sessions begun and not ended
    xrVibrated,                         \* the hands vibrated in Run's last step
    \* ---- StatusDisplay
    m_lines,
    m_lineMutex,                        \* "free", or the thread that holds the mutex
    m_textEnabled,
    updPc,                              \* position of the thread that sets the text
    updOp,                              \* the call that thread is in
    dwLayoutCreated,                    \* whether the last UpdateLineInternal made a layout
    renderPc,                           \* position of the thread that draws
    renderTop,                          \* the local top of Render
    renderDrawn,                        \* the DrawTextLayout calls of the Render under way
    \* ---- OpenXrProgram: SelectSwapchainPixelFormats
    swapchainFormats,                   \* the formats the runtime enumerates, in its order
    supportedColorFormats,              \* m_graphicsPlugin->SupportedColorFormats()
    supportedDepthFormats,              \* m_graphicsPlugin->SupportedDepthFormats()
    selectedFormats,                    \* what SelectSwapchainPixelFormats has returned
    fmtPc,                              \* position of the caller
    \* ---- HolographicAppMain: gamepads
    m_gamepads,
    padPc,                              \* "Constructor" until the loop over Gamepads() is over
    padSnapshot,                        \* what is left of Gamepad::Gamepads() for that loop
    sysGamepads,                        \* the gamepads connected to the system
    padEvent,                           \* the gamepad event handled last
    \* ---- HolographicAppMain: spatial locator
    m_canGetDefaultHolographicDisplay,
    m_spatialLocator,
    m_stationaryReferenceFrame,
    m_locatabilityChangedToken,
    locHandlers,                        \* the registrations of OnLocatabilityChanged
    locRegistrations,                   \* number of registrations made so far
    locPc,                              \* position of the thread that owns the app
    locCalled                           \* the locator held and the one found at the last call

arrVars == <<shell, mainPc, sdkPc, sdkArg, now, m_renderingSession, m_currentStatus,
             m_statusMsg, m_connectionResult, m_modelLoadResult, m_isConnected,
             m_sessionStarted, m_modelLoadTriggered, m_sessionPropertiesQueryInProgress,
             m_sessionPropertiesAsync, m_modelLoadingProgress, m_modelLoadFinished,
             m_needsStatusUpdate, m_timeAtLastRESTCall, m_delayBetweenRESTCalls,
             m_sessionStartingTime, m_statusDisplay, sdkCreatePending,
             sdkQueriesInFlight, sdkLastQueryTime, sdkConnectCalls, sdkConnectPending,
             sdkConn, sdkLoadsInFlight>>

runVars == <<runPc, m_systemId, m_session, m_renderResources, m_holograms, m_mainCubeIndex,
             m_spinningCubeIndex, m_sessionRunning, m_sessionState, exitRenderLoop,
             requestRestart, xrEvents, xrEventCount, xrSessionCount, xrBeginSessionCalls,
             xrEndSessionCalls, xrDrained, m_optionalExtensions, xrFailed,
             xrGetSystemRetries, xrLiveSessions, m_appSpace, m_graphicsBinding,
             m_needsCoordinateSystemUpdate, sdkAppSpace, xrFrame, xrBegunSessions,
             xrVibrated>>

dispVars == <<m_lines, m_lineMutex, m_textEnabled, updPc, updOp, dwLayoutCreated, renderPc,
              renderTop, renderDrawn>>

fmtVars == <<swapchainFormats, supportedColorFormats, supportedDepthFormats, selectedFormats,
             fmtPc>>

padVars == <<m_gamepads, padPc, padSnapshot, sysGamepads, padEvent>>

locVars == <<m_canGetDefaultHolographicDisplay, m_spatialLocator, m_stationaryReferenceFrame,
             m_locatabilityChangedToken, locHandlers, locRegistrations, locPc, locCalled>>

auxVars == <<fmtVars, padVars, locVars>>

vars == <<arrVars, runVars, dispVars, auxVars>>

(***************************************************************************)
(* Bounds of the model.                                                    *)
(***************************************************************************)
\* The clock stops at MaxTime seconds.
MaxTime == 30
\* The clock advances in steps of TickStep seconds.
TickStep == 5
\* The runtime queues at most MaxEvents events during a run.
MaxEvents == 3
\* The user places holograms while the list holds fewer than MaxHolograms.
MaxHolograms == 3
MaxRetries == 2
MaxLines == 2

(***************************************************************************)
(* Values.                                                                 *)
(***************************************************************************)
NULL == "null"

\* enum class AppConnectionStatus
AppConnectionStatus ==
    {"Disconnected", "CreatingSession", "StartingSession", "Connecting", "Connected",
     "ConnectionFailed"}

\* RR::Result: Success and one representative failure code.
Results == {"Success", "Fail"}

\* RR::ResultToString
ResultToString(error) == IF error = "Success" THEN "Success" ELSE "Fail"

\* RR::StatusToResult: RR::Status::OK maps to RR::Result::Success.
StatusToResult(status) == IF status = "OK" THEN "Success" ELSE "Fail"

\* RR::ConnectionStatus values passed to the ConnectionStatusChanged handler.
ConnectionStatuses == {"Disconnected", "Connecting", "Connected", "Disconnecting"}

\* RR::RenderingSessionStatus values a session-properties query reports.
RenderingSessionStatuses == {"Starting", "Ready", "Error", "Stopped", "Expired"}

\* The error message the SDK puts in a result context (ctx.ErrorMessage).
CtxErrorMessage == "ctx.ErrorMessage"

\* Values propertiesResult->GetMinimumRetryDelay() reports, in seconds.
MinimumRetryDelays == {5, 10}

\* Values the model-load progress callback reports, in percent.
ProgressValues == {50, 100}

NoArg == [status |-> "-", error |-> "-", delay |-> 0]

\* A StatusDisplay::Line{text, format, color, 1.2f}; text is the format string
\* followed by its arguments.
Line(text, format, color) == [text |-> text, format |-> format, color |-> color]

\* A StatusDisplay with its m_textEnabled flag and its lines.
Display(textEnabled, lines) == [null |-> FALSE, textEnabled |-> textEnabled, lines |-> lines]

\* m_statusDisplay == nullptr
NullDisplay == [null |-> TRUE, textEnabled |-> FALSE, lines |-> <<>>]

(***************************************************************************)
(* OpenXrProgram: remote-rendering glue.                                   *)
(***************************************************************************)

\* The status lines UpdateStatusText adds for the connection status.
Xr_StatusLines ==
    CASE m_currentStatus = "CreatingSession" ->
            <<Line(<<"Creating session...">>, "LargeBold", "White")>>
      [] m_currentStatus = "StartingSession" ->
            <<Line(<<"Starting session...">>, "LargeBold", "White"),
              Line(<<"...this may take a while. Elapsed time: %ds",
                     now - m_sessionStartingTime>>, "Small", "White")>>
      [] m_currentStatus = "Connecting" ->
            <<Line(<<"Connecting...">>, "LargeBold", "White")>>
      [] m_currentStatus = "Connected" ->
            <<Line(<<"Connected">>, "LargeBold", "Green")>>
      [] m_currentStatus = "ConnectionFailed" ->
            <<Line(<<"Failed to connect">>, "LargeBold", "Red"),
              Line(<<"Error: %s", m_statusMsg>>, "LargeBold", "Red")>>
      [] m_currentStatus = "Disconnected" ->
            <<Line(<<"Disconnected">>, "LargeBold", "Yellow")>>

\* A variant of the model-loading line that is added only while the load is under way.
Xr_ModelLines_WhileLoading ==
    IF m_modelLoadTriggered /\ ~m_modelLoadFinished
    THEN <<Line(<<"Loading model (%i%%)", m_modelLoadingProgress>>, "LargeBold", "White")>>
    ELSE <<>>

\* The additional line UpdateStatusText adds for the model loading progress.
Xr_ModelLines ==
    IF m_modelLoadTriggered
    THEN IF m_modelLoadFinished /\ m_modelLoadResult # "Success"
         THEN <<Line(<<"Failed to load model: %s", ResultToString(m_modelLoadResult)>>,
                     "LargeBold", "Red")>>
         ELSE <<Line(<<"Loading model (%i%%)", m_modelLoadingProgress>>,
                     "LargeBold", "White")>>
    ELSE <<>>

\* UpdateStatusText: the status display it leaves behind.
Xr_UpdateStatusText ==
    IF m_statusDisplay = NullDisplay
    THEN NullDisplay
    ELSE IF m_modelLoadFinished /\ m_modelLoadResult = "Success"
         THEN Display(FALSE, <<>>)
         ELSE Display(TRUE, Xr_StatusLines \o Xr_ModelLines)

\* A variant of SetNewState that does not enter ConnectionFailed.
Xr_SetNewState_IgnoringFailure(state, statusMsg) ==
    /\ m_currentStatus' = IF state = "ConnectionFailed" THEN m_currentStatus ELSE state
    /\ m_statusMsg' = IF statusMsg = NULL THEN "" ELSE statusMsg

\* SetNewState(state, statusMsg)
Xr_SetNewState(state, statusMsg) ==
    /\ m_currentStatus' = state
    /\ m_statusMsg' = IF statusMsg = NULL THEN "" ELSE statusMsg

\* A variant of SetNewSession that reports the new session as Connected.
Xr_SetNewSession_AsConnected ==
    /\ Xr_SetNewState("Connected", NULL)
    /\ m_sessionStartingTime' = now
    /\ m_timeAtLastRESTCall' = now
    /\ m_renderingSession' = "session"

\* SetNewSession(newSession)
Xr_SetNewSession ==
    /\ Xr_SetNewState("StartingSession", NULL)
    /\ m_sessionStartingTime' = now
    /\ m_timeAtLastRESTCall' = now
    /\ m_renderingSession' = "session"

\* StartModelLoading: resets the progress and starts the asynchronous load.
Xr_StartModelLoading ==
    /\ m_modelLoadingProgress' = 0
    /\ sdkLoadsInFlight' = sdkLoadsInFlight + 1

\* m_nearFar = {20.f, 0.1f}, set by InitializeSystem: the planes in tenths.
m_nearFar == [Near |-> 200, Far |-> 1]

\* std::min and std::max
Min(a, b) == IF b < a THEN b ELSE a
Max(a, b) == IF a < b THEN b ELSE a

\* UpdateARR, when connected: the planes given to SetNearAndFarPlane,
\* localNear = std::min(m_nearFar.Near, m_nearFar.Far) and
\* localFar = std::max(m_nearFar.Far, m_nearFar.Far).
Xr_SetNearAndFarPlane ==
    [near |-> Min(m_nearFar.Near, m_nearFar.Far), far |-> Max(m_nearFar.Far, m_nearFar.Far)]

\* ---- main thread ----

\* InitARR, step 3: issues CreateNewRenderingSessionAsync (m_sessionOverride is empty).
Xr_InitARR ==
    /\ shell = "OpenXr" /\ mainPc = "InitARR"
    /\ sdkCreatePending' = TRUE
    /\ mainPc' = "InitARR_SetNewState"
    /\ UNCHANGED <<shell, sdkPc, sdkArg, now, m_renderingSession, m_currentStatus,
                   m_statusMsg, m_connectionResult, m_modelLoadResult, m_isConnected,
                   m_sessionStarted, m_modelLoadTriggered,
                   m_sessionPropertiesQueryInProgress, m_sessionPropertiesAsync,
                   m_modelLoadingProgress, m_modelLoadFinished, m_needsStatusUpdate,
                   m_timeAtLastRESTCall, m_delayBetweenRESTCalls, m_sessionStartingTime,
                   m_statusDisplay, sdkQueriesInFlight, sdkLastQueryTime,
                   sdkConnectCalls, sdkConnectPending, sdkConn, sdkLoadsInFlight>>
    /\ UNCHANGED <<runVars, dispVars, auxVars>>

\* InitARR, the statement after the asynchronous request was issued.
Xr_InitARR_SetNewState ==
    /\ shell = "OpenXr" /\ mainPc = "InitARR_SetNewState"
    /\ Xr_SetNewState("CreatingSession", NULL)
    /\ mainPc' = "InitializeSession"
    /\ UNCHANGED <<shell, sdkPc, sdkArg, now, m_renderingSession,
                   m_connectionResult, m_modelLoadResult, m_isConnected,
                   m_sessionStarted, m_modelLoadTriggered,
                   m_sessionPropertiesQueryInProgress, m_sessionPropertiesAsync,
                   m_modelLoadingProgress, m_modelLoadFinished, m_needsStatusUpdate,
                   m_timeAtLastRESTCall, m_delayBetweenRESTCalls, m_sessionStartingTime,
                   m_statusDisplay, sdkCreatePending, sdkQueriesInFlight, sdkLastQueryTime,
                   sdkConnectCalls, sdkConnectPending, sdkConn, sdkLoadsInFlight>>
    /\ UNCHANGED <<runVars, dispVars, auxVars>>

\* InitializeSession creates the status display before the first frame.
Xr_InitializeSession_StatusDisplay ==
    /\ shell = "OpenXr" /\ mainPc = "InitializeSession"
    /\ m_statusDisplay' = Display(TRUE, <<>>)
    /\ mainPc' = "UpdateARR"
    /\ UNCHANGED <<shell, sdkPc, sdkArg, now, m_renderingSession, m_currentStatus,
                   m_statusMsg, m_connectionResult, m_modelLoadResult, m_isConnected,
                   m_sessionStarted, m_modelLoadTriggered,
                   m_sessionPropertiesQueryInProgress, m_sessionPropertiesAsync,
                   m_modelLoadingProgress, m_modelLoadFinished, m_needsStatusUpdate,
                   m_timeAtLastRESTCall, m_delayBetweenRESTCalls, m_sessionStartingTime,
                   sdkCreatePending, sdkQueriesInFlight, sdkLastQueryTime,
                   sdkConnectCalls, sdkConnectPending, sdkConn, sdkLoadsInFlight>>
    /\ UNCHANGED <<runVars, dispVars, auxVars>>

\* UpdateARR: the tests of m_renderingSession and of m_sessionStarted.
Xr_UpdateARR ==
    /\ shell = "OpenXr" /\ mainPc = "UpdateARR"
    /\ mainPc' = IF m_renderingSession # NULL
                 THEN IF ~m_sessionStarted THEN "UpdateARR_Query" ELSE "UpdateARR_ModelLoad"
                 ELSE "UpdateARR_UpdateStatusText"
    /\ UNCHANGED <<shell, sdkPc, sdkArg, now, m_renderingSession, m_currentStatus,
                   m_statusMsg, m_connectionResult, m_modelLoadResult, m_isConnected,
                   m_sessionStarted, m_modelLoadTriggered,
                   m_sessionPropertiesQueryInProgress, m_sessionPropertiesAsync,
                   m_modelLoadingProgress, m_modelLoadFinished, m_needsStatusUpdate,
                   m_timeAtLastRESTCall, m_delayBetweenRESTCalls, m_sessionStartingTime,
                   m_statusDisplay, sdkCreatePending, sdkQueriesInFlight, sdkLastQueryTime,
                   sdkConnectCalls, sdkConnectPending, sdkConn, sdkLoadsInFlight>>
    /\ UNCHANGED <<runVars, dispVars, auxVars>>

\* A variant of the query condition without the test of the in-progress flag.
Xr_QueryDue_IgnoringFlag ==
    now - m_timeAtLastRESTCall > m_delayBetweenRESTCalls

\* A variant of the query condition without the test of the elapsed time.
Xr_QueryDue_IgnoringDelay ==
    ~m_sessionPropertiesQueryInProgress

\* The condition under which UpdateARR issues a session-properties query.
Xr_QueryDue ==
    /\ ~m_sessionPropertiesQueryInProgress
    /\ now - m_timeAtLastRESTCall > m_delayBetweenRESTCalls

\* UpdateARR: the periodic session-properties query.
Xr_UpdateARR_Query ==
    /\ shell = "OpenXr" /\ mainPc = "UpdateARR_Query"
    /\ IF Xr_QueryDue
       THEN /\ m_timeAtLastRESTCall' = now
            /\ m_sessionPropertiesQueryInProgress' = TRUE
            /\ sdkQueriesInFlight' = sdkQueriesInFlight + 1
            /\ sdkLastQueryTime' = now
       ELSE UNCHANGED <<m_timeAtLastRESTCall, m_sessionPropertiesQueryInProgress,
                        sdkQueriesInFlight, sdkLastQueryTime>>
    /\ mainPc' = "UpdateARR_ModelLoad"
    /\ UNCHANGED <<shell, sdkPc, sdkArg, now, m_renderingSession, m_currentStatus,
                   m_statusMsg, m_connectionResult, m_modelLoadResult, m_isConnected,
                   m_sessionStarted, m_modelLoadTriggered, m_sessionPropertiesAsync,
                   m_modelLoadingProgress, m_modelLoadFinished, m_needsStatusUpdate,
                   m_delayBetweenRESTCalls, m_sessionStartingTime,
                   m_statusDisplay, sdkCreatePending,
                   sdkConnectCalls, sdkConnectPending, sdkConn, sdkLoadsInFlight>>
    /\ UNCHANGED <<runVars, dispVars, auxVars>>

\* UpdateARR: triggers the model load once connected.
Xr_UpdateARR_ModelLoad ==
    /\ shell = "OpenXr" /\ mainPc = "UpdateARR_ModelLoad"
    /\ IF m_isConnected /\ ~m_modelLoadTriggered
       THEN /\ m_modelLoadTriggered' = TRUE
            /\ Xr_StartModelLoading
       ELSE UNCHANGED <<m_modelLoadTriggered, m_modelLoadingProgress, sdkLoadsInFlight>>
    /\ mainPc' = "UpdateARR_UpdateStatusText"
    /\ UNCHANGED <<shell, sdkPc, sdkArg, now, m_renderingSession, m_currentStatus,
                   m_statusMsg, m_connectionResult, m_modelLoadResult, m_isConnected,
                   m_sessionStarted,
                   m_sessionPropertiesQueryInProgress, m_sessionPropertiesAsync,
                   m_modelLoadFinished, m_needsStatusUpdate,
                   m_timeAtLastRESTCall, m_delayBetweenRESTCalls, m_sessionStartingTime,
                   m_statusDisplay, sdkCreatePending, sdkQueriesInFlight, sdkLastQueryTime,
                   sdkConnectCalls, sdkConnectPending, sdkConn>>
    /\ UNCHANGED <<runVars, dispVars, auxVars>>

\* UpdateARR: UpdateStatusText, after which the frame's update is over.
Xr_UpdateARR_UpdateStatusText ==
    /\ shell = "OpenXr" /\ mainPc = "UpdateARR_UpdateStatusText"
    /\ m_statusDisplay' = Xr_UpdateStatusText
    /\ mainPc' = "UpdateARR"
    /\ UNCHANGED <<shell, sdkPc, sdkArg, now, m_renderingSession, m_currentStatus,
                   m_statusMsg, m_connectionResult, m_modelLoadResult, m_isConnected,
                   m_sessionStarted, m_modelLoadTriggered,
                   m_sessionPropertiesQueryInProgress, m_sessionPropertiesAsync,
                   m_modelLoadingProgress, m_modelLoadFinished, m_needsStatusUpdate,
                   m_timeAtLastRESTCall, m_delayBetweenRESTCalls, m_sessionStartingTime,
                   sdkCreatePending, sdkQueriesInFlight, sdkLastQueryTime,
                   sdkConnectCalls, sdkConnectPending, sdkConn, sdkLoadsInFlight>>
    /\ UNCHANGED <<runVars, dispVars, auxVars>>

\* ---- SDK callbacks ----

\* Outcomes of the session-creation request: "Success", "CtxError" (status OK,
\* ctx.Result is a failure), "StatusFail" (status is not OK).
Xr_SessionOutcomes == {"Success", "CtxError", "StatusFail"}

\* SessionHandler (the lambda of InitARR), run when the creation request completes.
Xr_SessionHandler(outcome) ==
    /\ shell = "OpenXr" /\ sdkPc = "idle" /\ sdkCreatePending
    /\ sdkCreatePending' = FALSE
    /\ CASE outcome = "Success" -> Xr_SetNewSession
         [] outcome = "CtxError" ->
                /\ Xr_SetNewState("ConnectionFailed", CtxErrorMessage)
                /\ UNCHANGED <<m_sessionStartingTime, m_timeAtLastRESTCall, m_renderingSession>>
         [] outcome = "StatusFail" ->
                /\ Xr_SetNewState("ConnectionFailed", "failed")
                /\ UNCHANGED <<m_sessionStartingTime, m_timeAtLastRESTCall, m_renderingSession>>
    /\ UNCHANGED <<shell, mainPc, sdkPc, sdkArg, now,
                   m_connectionResult, m_modelLoadResult, m_isConnected,
                   m_sessionStarted, m_modelLoadTriggered,
                   m_sessionPropertiesQueryInProgress, m_sessionPropertiesAsync,
                   m_modelLoadingProgress, m_modelLoadFinished, m_needsStatusUpdate,
                   m_delayBetweenRESTCalls,
                   m_statusDisplay, sdkQueriesInFlight, sdkLastQueryTime,
                   sdkConnectCalls, sdkConnectPending, sdkConn, sdkLoadsInFlight>>
    /\ UNCHANGED <<runVars, dispVars, auxVars>>

\* Outcomes of a session-properties query: a RenderingSessionStatus (status OK and
\* ctx.Result Success), "CtxError" or "StatusFail".
Xr_PropertiesOutcomes == RenderingSessionStatuses \cup {"CtxError", "StatusFail"}

\* The GetPropertiesAsync callback up to its last two statements.
Xr_GetPropertiesCallback(outcome, delay) ==
    /\ shell = "OpenXr" /\ sdkPc = "idle" /\ sdkQueriesInFlight > 0
    /\ CASE outcome = "Ready" ->
                /\ m_sessionStarted' = TRUE
                /\ Xr_SetNewState("Connecting", NULL)
                /\ sdkConnectCalls' = sdkConnectCalls + 1
                /\ sdkConnectPending' = TRUE
         [] outcome = "Error" ->
                /\ Xr_SetNewState("ConnectionFailed", "Session error")
                /\ UNCHANGED <<m_sessionStarted, sdkConnectCalls, sdkConnectPending>>
         [] outcome = "Stopped" ->
                /\ Xr_SetNewState("ConnectionFailed", "Session stopped")
                /\ UNCHANGED <<m_sessionStarted, sdkConnectCalls, sdkConnectPending>>
         [] outcome = "Expired" ->
                /\ Xr_SetNewState("ConnectionFailed", "Session expired")
                /\ UNCHANGED <<m_sessionStarted, sdkConnectCalls, sdkConnectPending>>
         [] outcome = "CtxError" ->
                /\ Xr_SetNewState("ConnectionFailed", CtxErrorMessage)
                /\ UNCHANGED <<m_sessionStarted, sdkConnectCalls, sdkConnectPending>>
         [] outcome = "StatusFail" ->
                /\ Xr_SetNewState("ConnectionFailed", "Failed to retrieve session status")
                /\ UNCHANGED <<m_sessionStarted, sdkConnectCalls, sdkConnectPending>>
         [] OTHER ->
                UNCHANGED <<m_currentStatus, m_statusMsg, m_sessionStarted,
                            sdkConnectCalls, sdkConnectPending>>
    /\ sdkPc' = "GetPropertiesCallback_End"
    /\ sdkArg' = [NoArg EXCEPT !.status = outcome, !.delay = delay]
    /\ UNCHANGED <<shell, mainPc, now, m_renderingSession,
                   m_connectionResult, m_modelLoadResult, m_isConnected,
                   m_modelLoadTriggered,
                   m_sessionPropertiesQueryInProgress, m_sessionPropertiesAsync,
                   m_modelLoadingProgress, m_modelLoadFinished, m_needsStatusUpdate,
                   m_timeAtLastRESTCall, m_delayBetweenRESTCalls, m_sessionStartingTime,
                   m_statusDisplay, sdkCreatePending, sdkQueriesInFlight, sdkLastQueryTime,
                   sdkConn, sdkLoadsInFlight>>
    /\ UNCHANGED <<runVars, dispVars, auxVars>>

\* The last two statements of the GetPropertiesAsync callback.
Xr_GetPropertiesCallback_End ==
    /\ shell = "OpenXr" /\ sdkPc = "GetPropertiesCallback_End"
    /\ m_delayBetweenRESTCalls' = sdkArg.delay
    /\ m_sessionPropertiesQueryInProgress' = FALSE
    /\ sdkQueriesInFlight' = sdkQueriesInFlight - 1
    /\ sdkPc' = "idle"
    /\ sdkArg' = NoArg
    /\ UNCHANGED <<shell, mainPc, now, m_renderingSession, m_currentStatus,
                   m_statusMsg, m_connectionResult, m_modelLoadResult, m_isConnected,
                   m_sessionStarted, m_modelLoadTriggered, m_sessionPropertiesAsync,
                   m_modelLoadingProgress, m_modelLoadFinished, m_needsStatusUpdate,
                   m_timeAtLastRESTCall, m_sessionStartingTime,
                   m_statusDisplay, sdkCreatePending, sdkLastQueryTime,
                   sdkConnectCalls, sdkConnectPending, sdkConn, sdkLoadsInFlight>>
    /\ UNCHANGED <<runVars, dispVars, auxVars>>

\* The connection statuses the SDK can change to from its current one.  The SDK
\* leaves Disconnected only on a connect request.
SdkConnNext ==
    CASE sdkConn = "Disconnected"  -> IF sdkConnectPending THEN {"Connecting"} ELSE {}
      [] sdkConn = "Connecting"    -> {"Connected", "Disconnected"}
      [] sdkConn = "Connected"     -> {"Disconnecting", "Disconnected"}
      [] sdkConn = "Disconnecting" -> {"Disconnected"}

\* OnConnectionStatusChanged up to the end of its if/else: the SetNewState call.
Xr_OnConnectionStatusChanged(status, error) ==
    /\ shell = "OpenXr" /\ sdkPc = "idle" /\ m_renderingSession # NULL
    /\ status \in SdkConnNext
    /\ sdkConn' = status
    /\ sdkConnectPending' = IF sdkConn = "Disconnected" THEN FALSE ELSE sdkConnectPending
    /\ m_connectionResult' = error
    /\ CASE status = "Connecting" ->
                Xr_SetNewState("Connecting", ResultToString(error))
         [] status = "Connected" ->
                IF error = "Success"
                THEN Xr_SetNewState("Connected", ResultToString(error))
                ELSE Xr_SetNewState("ConnectionFailed", ResultToString(error))
         [] status = "Disconnected" ->
                IF error = "Success"
                THEN Xr_SetNewState("Disconnected", ResultToString(error))
                ELSE Xr_SetNewState("ConnectionFailed", ResultToString(error))
         [] OTHER -> UNCHANGED <<m_currentStatus, m_statusMsg>>
    /\ IF status \in {"Connected", "Disconnected"}
       THEN /\ sdkPc' = "OnConnectionStatusChanged_Flags"
            /\ sdkArg' = [NoArg EXCEPT !.status = status, !.error = error]
       ELSE UNCHANGED <<sdkPc, sdkArg>>
    /\ UNCHANGED <<shell, mainPc, now, m_renderingSession,
                   m_modelLoadResult, m_isConnected,
                   m_sessionStarted, m_modelLoadTriggered,
                   m_sessionPropertiesQueryInProgress, m_sessionPropertiesAsync,
                   m_modelLoadingProgress, m_modelLoadFinished, m_needsStatusUpdate,
                   m_timeAtLastRESTCall, m_delayBetweenRESTCalls, m_sessionStartingTime,
                   m_statusDisplay, sdkCreatePending, sdkQueriesInFlight, sdkLastQueryTime,
                   sdkConnectCalls, sdkLoadsInFlight>>
    /\ UNCHANGED <<runVars, dispVars, auxVars>>

\* OnConnectionStatusChanged: m_modelLoadTriggered = m_modelLoadFinished = false.
Xr_OnConnectionStatusChanged_Flags ==
    /\ shell = "OpenXr" /\ sdkPc = "OnConnectionStatusChanged_Flags"
    /\ m_modelLoadTriggered' = FALSE
    /\ m_modelLoadFinished' = FALSE
    /\ sdkPc' = "OnConnectionStatusChanged_IsConnected"
    /\ UNCHANGED <<shell, mainPc, sdkArg, now, m_renderingSession, m_currentStatus,
                   m_statusMsg, m_connectionResult, m_modelLoadResult, m_isConnected,
                   m_sessionStarted,
                   m_sessionPropertiesQueryInProgress, m_sessionPropertiesAsync,
                   m_modelLoadingProgress, m_needsStatusUpdate,
                   m_timeAtLastRESTCall, m_delayBetweenRESTCalls, m_sessionStartingTime,
                   m_statusDisplay, sdkCreatePending, sdkQueriesInFlight, sdkLastQueryTime,
                   sdkConnectCalls, sdkConnectPending, sdkConn, sdkLoadsInFlight>>
    /\ UNCHANGED <<runVars, dispVars, auxVars>>

\* OnConnectionStatusChanged: the assignment to m_isConnected.
Xr_OnConnectionStatusChanged_IsConnected ==
    /\ shell = "OpenXr" /\ sdkPc = "OnConnectionStatusChanged_IsConnected"
    /\ m_isConnected' = IF sdkArg.status = "Connected" THEN sdkArg.error = "Success" ELSE FALSE
    /\ sdkPc' = "idle"
    /\ sdkArg' = NoArg
    /\ UNCHANGED <<shell, mainPc, now, m_renderingSession, m_currentStatus,
                   m_statusMsg, m_connectionResult, m_modelLoadResult,
                   m_sessionStarted, m_modelLoadTriggered,
                   m_sessionPropertiesQueryInProgress, m_sessionPropertiesAsync,
                   m_modelLoadingProgress, m_modelLoadFinished, m_needsStatusUpdate,
                   m_timeAtLastRESTCall, m_delayBetweenRESTCalls, m_sessionStartingTime,
                   m_statusDisplay, sdkCreatePending, sdkQueriesInFlight, sdkLastQueryTime,
                   sdkConnectCalls, sdkConnectPending, sdkConn, sdkLoadsInFlight>>
    /\ UNCHANGED <<runVars, dispVars, auxVars>>

\* The completed callback of LoadModelFromSasAsync; status is the RR::Status it is given.
Xr_LoadModelCompleted(status) ==
    /\ shell = "OpenXr" /\ sdkPc = "idle" /\ sdkLoadsInFlight > 0
    /\ m_modelLoadResult' = StatusToResult(status)
    /\ m_modelLoadFinished' = TRUE
    /\ sdkLoadsInFlight' = sdkLoadsInFlight - 1
    /\ UNCHANGED <<shell, mainPc, sdkPc, sdkArg, now, m_renderingSession, m_currentStatus,
                   m_statusMsg, m_connectionResult, m_isConnected,
                   m_sessionStarted, m_modelLoadTriggered,
                   m_sessionPropertiesQueryInProgress, m_sessionPropertiesAsync,
                   m_modelLoadingProgress, m_needsStatusUpdate,
                   m_timeAtLastRESTCall, m_delayBetweenRESTCalls, m_sessionStartingTime,
                   m_statusDisplay, sdkCreatePending, sdkQueriesInFlight, sdkLastQueryTime,
                   sdkConnectCalls, sdkConnectPending, sdkConn>>
    /\ UNCHANGED <<runVars, dispVars, auxVars>>

\* The progress callback of LoadModelFromSasAsync.
Xr_LoadModelProgress(progress) ==
    /\ shell = "OpenXr" /\ sdkPc = "idle" /\ sdkLoadsInFlight > 0
    /\ m_modelLoadingProgress' = progress
    /\ UNCHANGED <<shell, mainPc, sdkPc, sdkArg, now, m_renderingSession, m_currentStatus,
                   m_statusMsg, m_connectionResult, m_modelLoadResult, m_isConnected,
                   m_sessionStarted, m_modelLoadTriggered,
                   m_sessionPropertiesQueryInProgress, m_sessionPropertiesAsync,
                   m_modelLoadFinished, m_needsStatusUpdate,
                   m_timeAtLastRESTCall, m_delayBetweenRESTCalls, m_sessionStartingTime,
                   m_statusDisplay, sdkCreatePending, sdkQueriesInFlight, sdkLastQueryTime,
                   sdkConnectCalls, sdkConnectPending, sdkConn, sdkLoadsInFlight>>
    /\ UNCHANGED <<runVars, dispVars, auxVars>>

(***************************************************************************)
(* HolographicAppMain: remote-rendering glue.                              *)
(***************************************************************************)

\* The status lines UpdateStatusText adds for the connection status.
Holo_StatusLines ==
    CASE m_currentStatus = "CreatingSession" ->
            <<Line(<<"Creating session...">>, "LargeBold", "White")>>
      [] m_currentStatus = "StartingSession" ->
            <<Line(<<"Starting session...">>, "LargeBold", "White"),
              Line(<<"...this may take a while. Elapsed time: %ds",
                     now - m_sessionStartingTime>>, "Small", "White")>>
      [] m_currentStatus = "Connecting" ->
            <<Line(<<"Connecting...">>, "LargeBold", "White")>>
      [] m_currentStatus = "Connected" ->
            <<Line(<<"Connected">>, "LargeBold", "Green")>>
      [] m_currentStatus = "ConnectionFailed" ->
            <<Line(<<"Failed to connect">>, "LargeBold", "Red"),
              Line(<<"Error: %s", m_statusMsg>>, "LargeBold", "Red")>>
      [] m_currentStatus = "Disconnected" ->
            <<Line(<<"Disconnected">>, "LargeBold", "Yellow")>>

\* The additional line UpdateStatusText adds for the model loading progress.
Holo_ModelLines ==
    IF m_modelLoadTriggered
    THEN IF m_modelLoadFinished /\ m_modelLoadResult # "Success"
         THEN <<Line(<<"Failed to load model: %s", ResultToString(m_modelLoadResult)>>,
                     "LargeBold", "Red")>>
         ELSE <<Line(<<"Loading model (%i%%)", m_modelLoadingProgress>>,
                     "LargeBold", "White")>>
    ELSE <<>>

\* UpdateStatusText: the status display it leaves behind (its image is always
\* disabled and is left out).
Holo_UpdateStatusText ==
    IF m_statusDisplay = NullDisplay
    THEN NullDisplay
    ELSE IF m_modelLoadFinished /\ m_modelLoadResult = "Success"
         THEN Display(FALSE, <<>>)
         ELSE Display(TRUE, Holo_StatusLines \o Holo_ModelLines)

\* SetNewState(state, statusMsg)
Holo_SetNewState(state, statusMsg) ==
    /\ m_currentStatus' = state
    /\ m_statusMsg' = IF statusMsg = NULL THEN "" ELSE statusMsg
    /\ m_needsStatusUpdate' = TRUE

\* SetNewSession(newSession)
Holo_SetNewSession ==
    /\ Holo_SetNewState("StartingSession", NULL)
    /\ m_sessionStartingTime' = now
    /\ m_timeAtLastRESTCall' = now
    /\ m_renderingSession' = "session"

\* StartModelLoading: loadModel tells whether LoadModelFromSASAsync returned an
\* operation.
Holo_StartModelLoading(loadModel) ==
    /\ m_modelLoadingProgress' = 0
    /\ sdkLoadsInFlight' = IF loadModel THEN sdkLoadsInFlight + 1 ELSE sdkLoadsInFlight

\* ---- main thread ----

\* The constructor, step 3: issues CreateNewRenderingSessionAsync and registers
\* SessionHandler (m_sessionOverride is empty).
Holo_Constructor ==
    /\ shell = "Holo" /\ mainPc = "Constructor"
    /\ sdkCreatePending' = TRUE
    /\ mainPc' = "Constructor_SetNewState"
    /\ UNCHANGED <<shell, sdkPc, sdkArg, now, m_renderingSession, m_currentStatus,
                   m_statusMsg, m_connectionResult, m_modelLoadResult, m_isConnected,
                   m_sessionStarted, m_modelLoadTriggered,
                   m_sessionPropertiesQueryInProgress, m_sessionPropertiesAsync,
                   m_modelLoadingProgress, m_modelLoadFinished, m_needsStatusUpdate,
                   m_timeAtLastRESTCall, m_delayBetweenRESTCalls, m_sessionStartingTime,
                   m_statusDisplay, sdkQueriesInFlight, sdkLastQueryTime, sdkConnectCalls,
                   sdkConnectPending, sdkConn, sdkLoadsInFlight>>
    /\ UNCHANGED <<runVars, dispVars, auxVars>>

\* The constructor, the statement after the asynchronous request was issued.
Holo_Constructor_SetNewState ==
    /\ shell = "Holo" /\ mainPc = "Constructor_SetNewState"
    /\ Holo_SetNewState("CreatingSession", NULL)
    /\ mainPc' = "SetHolographicSpace"
    /\ UNCHANGED <<shell, sdkPc, sdkArg, now, m_renderingSession, m_connectionResult,
                   m_modelLoadResult, m_isConnected, m_sessionStarted,
                   m_modelLoadTriggered, m_sessionPropertiesQueryInProgress,
                   m_sessionPropertiesAsync, m_modelLoadingProgress, m_modelLoadFinished,
                   m_timeAtLastRESTCall, m_delayBetweenRESTCalls, m_sessionStartingTime,
                   m_statusDisplay, sdkCreatePending, sdkQueriesInFlight, sdkLastQueryTime,
                   sdkConnectCalls, sdkConnectPending, sdkConn, sdkLoadsInFlight>>
    /\ UNCHANGED <<runVars, dispVars, auxVars>>

\* SetHolographicSpace creates the status display before the first frame.
Holo_SetHolographicSpace ==
    /\ shell = "Holo" /\ mainPc = "SetHolographicSpace"
    /\ m_statusDisplay' = Display(TRUE, <<>>)
    /\ mainPc' = "Update"
    /\ UNCHANGED <<shell, sdkPc, sdkArg, now, m_renderingSession, m_currentStatus,
                   m_statusMsg, m_connectionResult, m_modelLoadResult, m_isConnected,
                   m_sessionStarted, m_modelLoadTriggered,
                   m_sessionPropertiesQueryInProgress, m_sessionPropertiesAsync,
                   m_modelLoadingProgress, m_modelLoadFinished, m_needsStatusUpdate,
                   m_timeAtLastRESTCall, m_delayBetweenRESTCalls, m_sessionStartingTime,
                   sdkCreatePending, sdkQueriesInFlight, sdkLastQueryTime, sdkConnectCalls,
                   sdkConnectPending, sdkConn, sdkLoadsInFlight>>
    /\ UNCHANGED <<runVars, dispVars, auxVars>>

\* Update: the tests of m_session and of m_sessionStarted.
Holo_Update ==
    /\ shell = "Holo" /\ mainPc = "Update"
    /\ mainPc' = IF m_renderingSession # NULL
                 THEN IF ~m_sessionStarted THEN "Update_Query" ELSE "Update_ModelLoad"
                 ELSE "Update_UpdateStatusText"
    /\ m_needsStatusUpdate' = IF m_renderingSession # NULL /\ ~m_sessionStarted
                              THEN TRUE
                              ELSE m_needsStatusUpdate
    /\ UNCHANGED <<shell, sdkPc, sdkArg, now, m_renderingSession, m_currentStatus,
                   m_statusMsg, m_connectionResult, m_modelLoadResult, m_isConnected,
                   m_sessionStarted, m_modelLoadTriggered,
                   m_sessionPropertiesQueryInProgress, m_sessionPropertiesAsync,
                   m_modelLoadingProgress, m_modelLoadFinished, m_timeAtLastRESTCall,
                   m_delayBetweenRESTCalls, m_sessionStartingTime, m_statusDisplay,
                   sdkCreatePending, sdkQueriesInFlight, sdkLastQueryTime, sdkConnectCalls,
                   sdkConnectPending, sdkConn, sdkLoadsInFlight>>
    /\ UNCHANGED <<runVars, dispVars, auxVars>>

\* constexpr float fNear = 0.1f, fFar = 10.0f: the planes in tenths.
Holo_fNear == 1
Holo_fFar == 100

\* Update, when connected: the planes given to SetNearAndFarPlane,
\* std::min(fNear, fFar) and std::max(fNear, fFar).
Holo_SetNearAndFarPlane ==
    [near |-> Min(Holo_fNear, Holo_fFar), far |-> Max(Holo_fNear, Holo_fFar)]

\* const double delayBetweenRESTCalls = 10.0;
Holo_delayBetweenRESTCalls == 10

\* The condition under which Update issues a session-properties query.
Holo_QueryDue ==
    /\ m_sessionPropertiesAsync = NULL
    /\ now - m_timeAtLastRESTCall > Holo_delayBetweenRESTCalls

\* Update: the periodic session-properties query; propAsync tells whether
\* GetPropertiesAsync returned an operation.
Holo_Update_Query(propAsync) ==
    /\ shell = "Holo" /\ mainPc = "Update_Query"
    /\ IF Holo_QueryDue
       THEN /\ m_timeAtLastRESTCall' = now
            /\ IF propAsync
               THEN /\ m_sessionPropertiesAsync' = "async"
                    /\ sdkQueriesInFlight' = sdkQueriesInFlight + 1
                    /\ sdkLastQueryTime' = now
               ELSE UNCHANGED <<m_sessionPropertiesAsync, sdkQueriesInFlight,
                                sdkLastQueryTime>>
       ELSE /\ propAsync
            /\ UNCHANGED <<m_timeAtLastRESTCall, m_sessionPropertiesAsync,
                           sdkQueriesInFlight, sdkLastQueryTime>>
    /\ mainPc' = "Update_ModelLoad"
    /\ UNCHANGED <<shell, sdkPc, sdkArg, now, m_renderingSession, m_currentStatus,
                   m_statusMsg, m_connectionResult, m_modelLoadResult, m_isConnected,
                   m_sessionStarted, m_modelLoadTriggered,
                   m_sessionPropertiesQueryInProgress, m_modelLoadingProgress,
                   m_modelLoadFinished, m_needsStatusUpdate, m_delayBetweenRESTCalls,
                   m_sessionStartingTime, m_statusDisplay, sdkCreatePending,
                   sdkConnectCalls, sdkConnectPending, sdkConn, sdkLoadsInFlight>>
    /\ UNCHANGED <<runVars, dispVars, auxVars>>

\* Update: triggers the model load once connected.
Holo_Update_ModelLoad(loadModel) ==
    /\ shell = "Holo" /\ mainPc = "Update_ModelLoad"
    /\ IF m_isConnected /\ ~m_modelLoadTriggered
       THEN /\ m_modelLoadTriggered' = TRUE
            /\ Holo_StartModelLoading(loadModel)
       ELSE /\ loadModel
            /\ UNCHANGED <<m_modelLoadTriggered, m_modelLoadingProgress, sdkLoadsInFlight>>
    /\ mainPc' = "Update_UpdateStatusText"
    /\ UNCHANGED <<shell, sdkPc, sdkArg, now, m_renderingSession, m_currentStatus,
                   m_statusMsg, m_connectionResult, m_modelLoadResult, m_isConnected,
                   m_sessionStarted, m_sessionPropertiesQueryInProgress,
                   m_sessionPropertiesAsync, m_modelLoadFinished, m_needsStatusUpdate,
                   m_timeAtLastRESTCall, m_delayBetweenRESTCalls, m_sessionStartingTime,
                   m_statusDisplay, sdkCreatePending, sdkQueriesInFlight, sdkLastQueryTime,
                   sdkConnectCalls, sdkConnectPending, sdkConn>>
    /\ UNCHANGED <<runVars, dispVars, auxVars>>

\* Update: refreshes the status text if m_needsStatusUpdate is raised, after which
\* the frame's update of the remote-rendering state is over.
Holo_Update_UpdateStatusText ==
    /\ shell = "Holo" /\ mainPc = "Update_UpdateStatusText"
    /\ IF m_needsStatusUpdate
       THEN /\ m_needsStatusUpdate' = FALSE
            /\ m_statusDisplay' = Holo_UpdateStatusText
       ELSE UNCHANGED <<m_needsStatusUpdate, m_statusDisplay>>
    /\ mainPc' = "Update"
    /\ UNCHANGED <<shell, sdkPc, sdkArg, now, m_renderingSession, m_currentStatus,
                   m_statusMsg, m_connectionResult, m_modelLoadResult, m_isConnected,
                   m_sessionStarted, m_modelLoadTriggered,
                   m_sessionPropertiesQueryInProgress, m_sessionPropertiesAsync,
                   m_modelLoadingProgress, m_modelLoadFinished, m_timeAtLastRESTCall,
                   m_delayBetweenRESTCalls, m_sessionStartingTime, sdkCreatePending,
                   sdkQueriesInFlight, sdkLastQueryTime, sdkConnectCalls,
                   sdkConnectPending, sdkConn, sdkLoadsInFlight>>
    /\ UNCHANGED <<runVars, dispVars, auxVars>>

\* ---- SDK callbacks ----

\* Outcomes of the session-creation request: handler->GetStatus() is Success or not.
Holo_SessionOutcomes == {"Success", "Fail"}

\* SessionHandler (the lambda of the constructor), run when the creation request
\* completes.
Holo_SessionHandler(outcome) ==
    /\ shell = "Holo" /\ sdkPc = "idle" /\ sdkCreatePending
    /\ sdkCreatePending' = FALSE
    /\ IF outcome = "Success"
       THEN Holo_SetNewSession
       ELSE /\ Holo_SetNewState("ConnectionFailed", "failed")
            /\ UNCHANGED <<m_sessionStartingTime, m_timeAtLastRESTCall, m_renderingSession>>
    /\ UNCHANGED <<shell, mainPc, sdkPc, sdkArg, now, m_connectionResult,
                   m_modelLoadResult, m_isConnected, m_sessionStarted,
                   m_modelLoadTriggered, m_sessionPropertiesQueryInProgress,
                   m_sessionPropertiesAsync, m_modelLoadingProgress, m_modelLoadFinished,
                   m_delayBetweenRESTCalls, m_statusDisplay, sdkQueriesInFlight,
                   sdkLastQueryTime, sdkConnectCalls, sdkConnectPending, sdkConn,
                   sdkLoadsInFlight>>
    /\ UNCHANGED <<runVars, dispVars, auxVars>>

\* Outcomes of a session-properties query: a RenderingSessionStatus
\* (async->GetStatus() is Success) or "StatusFail".
Holo_PropertiesOutcomes == RenderingSessionStatuses \cup {"StatusFail"}

\* The Completed callback of GetPropertiesAsync up to its last statement.
Holo_GetPropertiesCompleted(outcome) ==
    /\ shell = "Holo" /\ sdkPc = "idle" /\ sdkQueriesInFlight > 0
    /\ CASE outcome = "Ready" ->
                /\ m_sessionStarted' = TRUE
                /\ Holo_SetNewState("Connecting", NULL)
                /\ sdkConnectCalls' = sdkConnectCalls + 1
                /\ sdkConnectPending' = TRUE
         [] outcome = "Error" ->
                /\ Holo_SetNewState("ConnectionFailed", "Session error")
                /\ UNCHANGED <<m_sessionStarted, sdkConnectCalls, sdkConnectPending>>
         [] outcome = "Stopped" ->
                /\ Holo_SetNewState("ConnectionFailed", "Session stopped")
                /\ UNCHANGED <<m_sessionStarted, sdkConnectCalls, sdkConnectPending>>
         [] outcome = "Expired" ->
                /\ Holo_SetNewState("ConnectionFailed", "Session expired")
                /\ UNCHANGED <<m_sessionStarted, sdkConnectCalls, sdkConnectPending>>
         [] outcome = "StatusFail" ->
                /\ Holo_SetNewState("ConnectionFailed", "Failed to retrieve session status")
                /\ UNCHANGED <<m_sessionStarted, sdkConnectCalls, sdkConnectPending>>
         [] OTHER ->
                UNCHANGED <<m_currentStatus, m_statusMsg, m_needsStatusUpdate,
                            m_sessionStarted, sdkConnectCalls, sdkConnectPending>>
    /\ sdkPc' = "GetPropertiesCompleted_End"
    /\ sdkArg' = [NoArg EXCEPT !.status = outcome]
    /\ UNCHANGED <<shell, mainPc, now, m_renderingSession, m_connectionResult,
                   m_modelLoadResult, m_isConnected, m_modelLoadTriggered,
                   m_sessionPropertiesQueryInProgress, m_sessionPropertiesAsync,
                   m_modelLoadingProgress, m_modelLoadFinished, m_timeAtLastRESTCall,
                   m_delayBetweenRESTCalls, m_sessionStartingTime, m_statusDisplay,
                   sdkCreatePending, sdkQueriesInFlight, sdkLastQueryTime, sdkConn,
                   sdkLoadsInFlight>>
    /\ UNCHANGED <<runVars, dispVars, auxVars>>

\* The last statement of the Completed callback of GetPropertiesAsync.
Holo_GetPropertiesCompleted_End ==
    /\ shell = "Holo" /\ sdkPc = "GetPropertiesCompleted_End"
    /\ m_sessionPropertiesAsync' = NULL
    /\ sdkQueriesInFlight' = sdkQueriesInFlight - 1
    /\ sdkPc' = "idle"
    /\ sdkArg' = NoArg
    /\ UNCHANGED <<shell, mainPc, now, m_renderingSession, m_currentStatus, m_statusMsg,
                   m_connectionResult, m_modelLoadResult, m_isConnected, m_sessionStarted,
                   m_modelLoadTriggered, m_sessionPropertiesQueryInProgress,
                   m_modelLoadingProgress, m_modelLoadFinished, m_needsStatusUpdate,
                   m_timeAtLastRESTCall, m_delayBetweenRESTCalls, m_sessionStartingTime,
                   m_statusDisplay, sdkCreatePending, sdkLastQueryTime, sdkConnectCalls,
                   sdkConnectPending, sdkConn, sdkLoadsInFlight>>
    /\ UNCHANGED <<runVars, dispVars, auxVars>>

\* OnConnectionStatusChanged up to the end of its if/else: the SetNewState call.
Holo_OnConnectionStatusChanged(status, error) ==
    /\ shell = "Holo" /\ sdkPc = "idle" /\ m_renderingSession # NULL
    /\ status \in SdkConnNext
    /\ sdkConn' = status
    /\ sdkConnectPending' = IF sdkConn = "Disconnected" THEN FALSE ELSE sdkConnectPending
    /\ m_connectionResult' = error
    /\ CASE status = "Connecting" ->
                Holo_SetNewState("Connecting", ResultToString(error))
         [] status = "Connected" ->
                IF error = "Success"
                THEN Holo_SetNewState("Connected", ResultToString(error))
                ELSE Holo_SetNewState("ConnectionFailed", ResultToString(error))
         [] status = "Disconnected" ->
                IF error = "Success"
                THEN Holo_SetNewState("Disconnected", ResultToString(error))
                ELSE Holo_SetNewState("ConnectionFailed", ResultToString(error))
         [] OTHER ->
                /\ m_needsStatusUpdate' = TRUE
                /\ UNCHANGED <<m_currentStatus, m_statusMsg>>
    /\ IF status \in {"Connected", "Disconnected"}
       THEN /\ sdkPc' = "OnConnectionStatusChanged_Flags"
            /\ sdkArg' = [NoArg EXCEPT !.status = status, !.error = error]
       ELSE UNCHANGED <<sdkPc, sdkArg>>
    /\ UNCHANGED <<shell, mainPc, now, m_renderingSession, m_modelLoadResult,
                   m_isConnected, m_sessionStarted, m_modelLoadTriggered,
                   m_sessionPropertiesQueryInProgress, m_sessionPropertiesAsync,
                   m_modelLoadingProgress, m_modelLoadFinished, m_timeAtLastRESTCall,
                   m_delayBetweenRESTCalls, m_sessionStartingTime, m_statusDisplay,
                   sdkCreatePending, sdkQueriesInFlight, sdkLastQueryTime, sdkConnectCalls,
                   sdkLoadsInFlight>>
    /\ UNCHANGED <<runVars, dispVars, auxVars>>

\* OnConnectionStatusChanged: m_modelLoadTriggered = m_modelLoadFinished = false.
Holo_OnConnectionStatusChanged_Flags ==
    /\ shell = "Holo" /\ sdkPc = "OnConnectionStatusChanged_Flags"
    /\ m_modelLoadTriggered' = FALSE
    /\ m_modelLoadFinished' = FALSE
    /\ sdkPc' = "OnConnectionStatusChanged_IsConnected"
    /\ UNCHANGED <<shell, mainPc, sdkArg, now, m_renderingSession, m_currentStatus,
                   m_statusMsg, m_connectionResult, m_modelLoadResult, m_isConnected,
                   m_sessionStarted, m_sessionPropertiesQueryInProgress,
                   m_sessionPropertiesAsync, m_modelLoadingProgress, m_needsStatusUpdate,
                   m_timeAtLastRESTCall, m_delayBetweenRESTCalls, m_sessionStartingTime,
                   m_statusDisplay, sdkCreatePending, sdkQueriesInFlight, sdkLastQueryTime,
                   sdkConnectCalls, sdkConnectPending, sdkConn, sdkLoadsInFlight>>
    /\ UNCHANGED <<runVars, dispVars, auxVars>>

\* OnConnectionStatusChanged: the assignment to m_isConnected.
Holo_OnConnectionStatusChanged_IsConnected ==
    /\ shell = "Holo" /\ sdkPc = "OnConnectionStatusChanged_IsConnected"
    /\ m_isConnected' = IF sdkArg.status = "Connected" THEN sdkArg.error = "Success" ELSE FALSE
    /\ sdkPc' = "idle"
    /\ sdkArg' = NoArg
    /\ UNCHANGED <<shell, mainPc, now, m_renderingSession, m_currentStatus, m_statusMsg,
                   m_connectionResult, m_modelLoadResult, m_sessionStarted,
                   m_modelLoadTriggered, m_sessionPropertiesQueryInProgress,
                   m_sessionPropertiesAsync, m_modelLoadingProgress, m_modelLoadFinished,
                   m_needsStatusUpdate, m_timeAtLastRESTCall, m_delayBetweenRESTCalls,
                   m_sessionStartingTime, m_statusDisplay, sdkCreatePending,
                   sdkQueriesInFlight, sdkLastQueryTime, sdkConnectCalls,
                   sdkConnectPending, sdkConn, sdkLoadsInFlight>>
    /\ UNCHANGED <<runVars, dispVars, auxVars>>

\* The Completed callback of LoadModelFromSASAsync; result is async->GetStatus().
Holo_LoadModelCompleted(result) ==
    /\ shell = "Holo" /\ sdkPc = "idle" /\ sdkLoadsInFlight > 0
    /\ m_modelLoadResult' = result
    /\ m_modelLoadFinished' = TRUE
    /\ sdkLoadsInFlight' = sdkLoadsInFlight - 1
    /\ UNCHANGED <<shell, mainPc, sdkPc, sdkArg, now, m_renderingSession, m_currentStatus,
                   m_statusMsg, m_connectionResult, m_isConnected, m_sessionStarted,
                   m_modelLoadTriggered, m_sessionPropertiesQueryInProgress,
                   m_sessionPropertiesAsync, m_modelLoadingProgress, m_needsStatusUpdate,
                   m_timeAtLastRESTCall, m_delayBetweenRESTCalls, m_sessionStartingTime,
                   m_statusDisplay, sdkCreatePending, sdkQueriesInFlight, sdkLastQueryTime,
                   sdkConnectCalls, sdkConnectPending, sdkConn>>
    /\ UNCHANGED <<runVars, dispVars, auxVars>>

\* The ProgressUpdated callback of LoadModelFromSASAsync.
Holo_LoadModelProgress(progress) ==
    /\ shell = "Holo" /\ sdkPc = "idle" /\ sdkLoadsInFlight > 0
    /\ m_modelLoadingProgress' = progress
    /\ m_needsStatusUpdate' = TRUE
    /\ UNCHANGED <<shell, mainPc, sdkPc, sdkArg, now, m_renderingSession, m_currentStatus,
                   m_statusMsg, m_connectionResult, m_modelLoadResult, m_isConnected,
                   m_sessionStarted, m_modelLoadTriggered,
                   m_sessionPropertiesQueryInProgress, m_sessionPropertiesAsync,
                   m_modelLoadFinished, m_timeAtLastRESTCall, m_delayBetweenRESTCalls,
                   m_sessionStartingTime, m_statusDisplay, sdkCreatePending,
                   sdkQueriesInFlight, sdkLastQueryTime, sdkConnectCalls,
                   sdkConnectPending, sdkConn, sdkLoadsInFlight>>
    /\ UNCHANGED <<runVars, dispVars, auxVars>>

(***************************************************************************)
(* OpenXrProgram: the main loop.                                           *)
(***************************************************************************)
XR_NULL_SYSTEM_ID == 0
XR_NULL_HANDLE == 0

\* The XrSessionState values the runtime reports in a session-state-changed event.
XrSessionStates ==
    {"XR_SESSION_STATE_READY", "XR_SESSION_STATE_FOCUSED", "XR_SESSION_STATE_STOPPING",
     "XR_SESSION_STATE_LOSS_PENDING", "XR_SESSION_STATE_EXITING"}

\* The events xrPollEvent can return: the type and, for a session-state change,
\* the new state.
XrEventKinds ==
    {[type |-> "XR_TYPE_EVENT_DATA_INSTANCE_LOSS_PENDING", state |-> "-"],
     [type |-> "XR_TYPE_EVENT_DATA_INTERACTION_PROFILE_CHANGED", state |-> "-"]}
    \cup {[type |-> "XR_TYPE_EVENT_DATA_SESSION_STATE_CHANGED", state |-> st] :
              st \in XrSessionStates}

\* std::optional<uint32_t>: empty, or holding an index.
nullopt == [has_value |-> FALSE, value |-> 0]
Optional(v) == [has_value |-> TRUE, value |-> v]

\* Results of an OpenXR call: XR_SUCCESS or a failure code.
XrResults == {"XR_SUCCESS", "XR_ERROR"}

\* A failed OpenXR call: the function and the result it returned.
Failure(call, result) == [call |-> call, result |-> result]

\* The failures of one call: none when it succeeded.
Failures(call, result) == IF result = "XR_SUCCESS" THEN {} ELSE {Failure(call, result)}

\* An OpenXR call of a frame: the function and what it is called on.
FrameCall(fn, arg) == [fn |-> fn, arg |-> arg]

\* No frame: what xrFrame holds between ProcessEvents and the next RenderFrame.
NoFrame == [calls |-> <<>>, shouldRender |-> FALSE, poseValid |-> FALSE, layerCount |-> -1]

\* Whether the event is a session-state change to `state`.
IsStateChange(event, state) ==
    event.type = "XR_TYPE_EVENT_DATA_SESSION_STATE_CHANGED" /\ event.state = state

\* A variant of InitializeSystem's loop that gives up when no headset is there.
InitializeSystem_Loop_GivingUp(result) ==
    CASE result = "XR_SUCCESS" ->
             /\ m_systemId' = 1
             /\ runPc' = "InitializeSession"
             /\ UNCHANGED xrGetSystemRetries
      [] OTHER ->
             /\ runPc' = "Aborted"
             /\ UNCHANGED <<m_systemId, xrGetSystemRetries>>

\* InitializeSystem: one round of the loop `while (true)` around xrGetSystem.
\* result is what xrGetSystem returns: success leaves the loop with the system
\* id, a missing headset (XR_ERROR_FORM_FACTOR_UNAVAILABLE) sleeps a second and
\* goes round again, any other failure throws.
InitializeSystem_Loop(result) ==
    CASE result = "XR_SUCCESS" ->
             /\ m_systemId' = 1
             /\ runPc' = "InitializeSession"
             /\ UNCHANGED xrGetSystemRetries
      [] result = "XR_ERROR_FORM_FACTOR_UNAVAILABLE" ->
             /\ xrGetSystemRetries < MaxRetries
             /\ xrGetSystemRetries' = xrGetSystemRetries + 1
             /\ UNCHANGED <<m_systemId, runPc>>
      [] OTHER ->
             /\ runPc' = "Aborted"
             /\ UNCHANGED <<m_systemId, xrGetSystemRetries>>

\* Run: InitializeSystem.  A failed precondition check throws before xrGetSystem
\* is called.
Run_InitializeSystem(result) ==
    /\ runPc = "InitializeSystem"
    /\ IF m_systemId # XR_NULL_SYSTEM_ID
       THEN /\ result = "XR_SUCCESS"
            /\ runPc' = "Aborted"
            /\ xrFailed' = {}
            /\ UNCHANGED <<m_systemId, xrGetSystemRetries>>
       ELSE /\ InitializeSystem_Loop(result)
            /\ xrFailed' = Failures("xrGetSystem", result)
    /\ UNCHANGED <<m_session, m_renderResources, m_holograms, m_mainCubeIndex,
                   m_spinningCubeIndex, m_sessionRunning, m_sessionState,
                   m_optionalExtensions, exitRenderLoop, requestRestart, xrEvents,
                   xrEventCount, xrSessionCount, xrBeginSessionCalls, xrEndSessionCalls,
                   xrDrained, xrLiveSessions>>
    /\ UNCHANGED <<m_appSpace, m_graphicsBinding, m_needsCoordinateSystemUpdate,
                   sdkAppSpace, xrFrame, xrBegunSessions>>
    /\ xrVibrated' = {}
    /\ UNCHANGED <<arrVars, dispVars, auxVars>>

\* Run: InitializeSession, with CreateSpaces and CreateSwapchains.  Creates the
\* session, the app space of that session and the render resources; a failed precondition check throws, and so does a failure of
\* xrCreateSession (result).
Run_InitializeSession(result) ==
    /\ runPc = "InitializeSession"
    /\ xrGetSystemRetries' = 0
    /\ IF \/ m_systemId = XR_NULL_SYSTEM_ID
          \/ m_session # XR_NULL_HANDLE
          \/ m_renderResources
       THEN /\ result = "XR_SUCCESS"
            /\ runPc' = "Aborted"
            /\ xrFailed' = {}
            /\ UNCHANGED <<m_session, m_renderResources, xrSessionCount, xrLiveSessions,
                           m_appSpace>>
       ELSE /\ xrFailed' = Failures("xrCreateSession", result)
            /\ IF result = "XR_SUCCESS"
               THEN /\ xrSessionCount' = xrSessionCount + 1
                    /\ m_session' = xrSessionCount + 1
                    /\ xrLiveSessions' = xrLiveSessions \cup {xrSessionCount + 1}
                    /\ m_appSpace' = xrSessionCount + 1
                    /\ m_renderResources' = TRUE
                    /\ runPc' = "ProcessEvents"
               ELSE /\ runPc' = "Aborted"
                    /\ UNCHANGED <<m_session, m_renderResources, xrSessionCount,
                                   xrLiveSessions, m_appSpace>>
    /\ UNCHANGED <<m_systemId, m_holograms, m_mainCubeIndex, m_spinningCubeIndex,
                   m_sessionRunning, m_sessionState, m_optionalExtensions, exitRenderLoop,
                   requestRestart, xrEvents, xrEventCount, xrBeginSessionCalls,
                   xrEndSessionCalls, xrDrained>>
    /\ UNCHANGED <<m_graphicsBinding, m_needsCoordinateSystemUpdate, sdkAppSpace,
                   xrFrame, xrBegunSessions>>
    /\ xrVibrated' = {}
    /\ UNCHANGED <<arrVars, dispVars, auxVars>>

\* ProcessEvents: *exitRenderLoop = *requestRestart = false.
Run_ProcessEvents ==
    /\ runPc = "ProcessEvents"
    /\ exitRenderLoop' = FALSE
    /\ requestRestart' = FALSE
    /\ xrDrained' = <<>>
    /\ xrFailed' = {}
    /\ xrFrame' = NoFrame
    /\ runPc' = "PollEvent"
    /\ UNCHANGED <<m_systemId, m_session, m_renderResources, m_holograms, m_mainCubeIndex,
                   m_spinningCubeIndex, m_sessionRunning, m_sessionState,
                   m_optionalExtensions, xrEvents, xrEventCount, xrSessionCount,
                   xrBeginSessionCalls, xrEndSessionCalls, xrGetSystemRetries,
                   xrLiveSessions>>
    /\ UNCHANGED <<m_appSpace, m_graphicsBinding, m_needsCoordinateSystemUpdate,
                   sdkAppSpace, xrBegunSessions>>
    /\ xrVibrated' = {}
    /\ UNCHANGED <<arrVars, dispVars, auxVars>>

\* A variant of the inner switch in which a session that gets the focus is taken
\* to be running.
ProcessSessionStateChanged_FocusedRuns(event, result) ==
    /\ m_sessionState' = event.state
    /\ CASE event.state = "XR_SESSION_STATE_READY" ->
                /\ xrBeginSessionCalls' = xrBeginSessionCalls + 1
                /\ IF result = "XR_SUCCESS"
                   THEN m_sessionRunning' = TRUE /\ runPc' = "PollEvent"
                   ELSE m_sessionRunning' = m_sessionRunning /\ runPc' = "Aborted"
                /\ UNCHANGED <<xrEndSessionCalls, exitRenderLoop, requestRestart, xrDrained>>
         [] event.state = "XR_SESSION_STATE_STOPPING" ->
                /\ m_sessionRunning' = FALSE
                /\ xrEndSessionCalls' = xrEndSessionCalls + 1
                /\ runPc' = IF result = "XR_SUCCESS" THEN "PollEvent" ELSE "Aborted"
                /\ UNCHANGED <<xrBeginSessionCalls, exitRenderLoop, requestRestart, xrDrained>>
         [] event.state = "XR_SESSION_STATE_EXITING" ->
                /\ result = "XR_SUCCESS"
                /\ exitRenderLoop' = TRUE
                /\ requestRestart' = FALSE
                /\ xrDrained' = Append(xrDrained, event.state)
                /\ runPc' = "PollEvent"
                /\ UNCHANGED <<m_sessionRunning, xrBeginSessionCalls, xrEndSessionCalls>>
         [] event.state = "XR_SESSION_STATE_LOSS_PENDING" ->
                /\ result = "XR_SUCCESS"
                /\ exitRenderLoop' = TRUE
                /\ requestRestart' = TRUE
                /\ xrDrained' = Append(xrDrained, event.state)
                /\ runPc' = "PollEvent"
                /\ UNCHANGED <<m_sessionRunning, xrBeginSessionCalls, xrEndSessionCalls>>
         [] OTHER ->
                /\ result = "XR_SUCCESS"
                /\ m_sessionRunning' = TRUE
                /\ runPc' = "PollEvent"
                /\ UNCHANGED <<xrBeginSessionCalls, xrEndSessionCalls,
                               exitRenderLoop, requestRestart, xrDrained>>

\* ProcessEvents, a session-state-changed event: the effect of the inner switch.
\* result is what xrBeginSession / xrEndSession returns.
ProcessSessionStateChanged(event, result) ==
    /\ m_sessionState' = event.state
    /\ CASE event.state = "XR_SESSION_STATE_READY" ->
                /\ xrBeginSessionCalls' = xrBeginSessionCalls + 1
                /\ IF result = "XR_SUCCESS"
                   THEN m_sessionRunning' = TRUE /\ runPc' = "PollEvent"
                   ELSE m_sessionRunning' = m_sessionRunning /\ runPc' = "Aborted"
                /\ UNCHANGED <<xrEndSessionCalls, exitRenderLoop, requestRestart, xrDrained>>
         [] event.state = "XR_SESSION_STATE_STOPPING" ->
                /\ m_sessionRunning' = FALSE
                /\ xrEndSessionCalls' = xrEndSessionCalls + 1
                /\ runPc' = IF result = "XR_SUCCESS" THEN "PollEvent" ELSE "Aborted"
                /\ UNCHANGED <<xrBeginSessionCalls, exitRenderLoop, requestRestart, xrDrained>>
         [] event.state = "XR_SESSION_STATE_EXITING" ->
                /\ result = "XR_SUCCESS"
                /\ exitRenderLoop' = TRUE
                /\ requestRestart' = FALSE
                /\ xrDrained' = Append(xrDrained, event.state)
                /\ runPc' = "PollEvent"
                /\ UNCHANGED <<m_sessionRunning, xrBeginSessionCalls, xrEndSessionCalls>>
         [] event.state = "XR_SESSION_STATE_LOSS_PENDING" ->
                /\ result = "XR_SUCCESS"
                /\ exitRenderLoop' = TRUE
                /\ requestRestart' = TRUE
                /\ xrDrained' = Append(xrDrained, event.state)
                /\ runPc' = "PollEvent"
                /\ UNCHANGED <<m_sessionRunning, xrBeginSessionCalls, xrEndSessionCalls>>
         [] OTHER ->
                /\ result = "XR_SUCCESS"
                /\ runPc' = "PollEvent"
                /\ UNCHANGED <<m_sessionRunning, xrBeginSessionCalls, xrEndSessionCalls,
                               exitRenderLoop, requestRestart, xrDrained>>

\* The OpenXR call whose result one round of the event loop depends on: the
\* xrBeginSession or xrEndSession that answers a state change of the session,
\* else xrPollEvent itself.
PollEvent_Call ==
    IF /\ xrEvents # <<>>
       /\ Head(xrEvents).type = "XR_TYPE_EVENT_DATA_SESSION_STATE_CHANGED"
       /\ m_session # XR_NULL_HANDLE /\ m_session = Head(xrEvents).session
       /\ Head(xrEvents).state \in {"XR_SESSION_STATE_READY", "XR_SESSION_STATE_STOPPING"}
    THEN IF Head(xrEvents).state = "XR_SESSION_STATE_READY"
         THEN "xrBeginSession" ELSE "xrEndSession"
    ELSE "xrPollEvent"

\* A variant of ProcessEvents that goes on with the next event after
\* XR_TYPE_EVENT_DATA_INSTANCE_LOSS_PENDING.
Run_PollEvent_DrainingOn(result) ==
    /\ runPc = "PollEvent"
    /\ xrFailed' = Failures(PollEvent_Call, result)
    /\ xrBegunSessions' =
           CASE PollEvent_Call = "xrBeginSession" /\ result = "XR_SUCCESS" ->
                    xrBegunSessions \cup {m_session}
             [] PollEvent_Call = "xrEndSession" /\ result = "XR_SUCCESS" ->
                    xrBegunSessions \ {m_session}
             [] OTHER -> xrBegunSessions
    /\ IF PollEvent_Call = "xrPollEvent" /\ result # "XR_SUCCESS"
       THEN /\ runPc' = "Aborted"
            /\ UNCHANGED <<xrEvents, m_sessionState, m_sessionRunning, xrBeginSessionCalls,
                           xrEndSessionCalls, exitRenderLoop, requestRestart, xrDrained>>
       ELSE IF xrEvents = <<>>
       THEN /\ runPc' = "RenderLoop"
            /\ UNCHANGED <<xrEvents, m_sessionState, m_sessionRunning, xrBeginSessionCalls,
                           xrEndSessionCalls, exitRenderLoop, requestRestart, xrDrained>>
       ELSE /\ xrEvents' = Tail(xrEvents)
            /\ CASE Head(xrEvents).type = "XR_TYPE_EVENT_DATA_INSTANCE_LOSS_PENDING" ->
                        /\ exitRenderLoop' = TRUE
                        /\ requestRestart' = FALSE
                        /\ xrDrained' = Append(xrDrained, Head(xrEvents).type)
                        /\ runPc' = "PollEvent"
                        /\ UNCHANGED <<m_sessionState, m_sessionRunning,
                                       xrBeginSessionCalls, xrEndSessionCalls>>
                 [] Head(xrEvents).type = "XR_TYPE_EVENT_DATA_SESSION_STATE_CHANGED" ->
                        IF m_session # XR_NULL_HANDLE /\ m_session = Head(xrEvents).session
                        THEN ProcessSessionStateChanged(Head(xrEvents), result)
                        ELSE /\ runPc' = "Aborted"
                             /\ UNCHANGED <<m_sessionState, m_sessionRunning,
                                            xrBeginSessionCalls, xrEndSessionCalls,
                                            exitRenderLoop, requestRestart, xrDrained>>
                 [] OTHER ->
                        /\ runPc' = "PollEvent"
                        /\ UNCHANGED <<m_sessionState, m_sessionRunning,
                                       xrBeginSessionCalls, xrEndSessionCalls,
                                       exitRenderLoop, requestRestart, xrDrained>>
    /\ UNCHANGED <<m_systemId, m_session, m_renderResources, m_holograms, m_mainCubeIndex,
                   m_spinningCubeIndex, m_optionalExtensions, xrEventCount, xrSessionCount,
                   xrGetSystemRetries, xrLiveSessions>>
    /\ UNCHANGED <<m_appSpace, m_graphicsBinding, m_needsCoordinateSystemUpdate,
                   sdkAppSpace, xrFrame>>
    /\ xrVibrated' = {}
    /\ UNCHANGED <<arrVars, dispVars, auxVars>>

\* ProcessEvents: one round of the loop `while (pollEvent(eventData))`.  When the
\* queue is empty ProcessEvents returns to Run's inner loop.  result is what the
\* call named by PollEvent_Call returns; a failing xrPollEvent throws.
Run_PollEvent(result) ==
    /\ runPc = "PollEvent"
    /\ xrFailed' = Failures(PollEvent_Call, result)
    /\ xrBegunSessions' =
           CASE PollEvent_Call = "xrBeginSession" /\ result = "XR_SUCCESS" ->
                    xrBegunSessions \cup {m_session}
             [] PollEvent_Call = "xrEndSession" /\ result = "XR_SUCCESS" ->
                    xrBegunSessions \ {m_session}
             [] OTHER -> xrBegunSessions
    /\ IF PollEvent_Call = "xrPollEvent" /\ result # "XR_SUCCESS"
       THEN /\ runPc' = "Aborted"
            /\ UNCHANGED <<xrEvents, m_sessionState, m_sessionRunning, xrBeginSessionCalls,
                           xrEndSessionCalls, exitRenderLoop, requestRestart, xrDrained>>
       ELSE IF xrEvents = <<>>
       THEN /\ runPc' = "RenderLoop"
            /\ UNCHANGED <<xrEvents, m_sessionState, m_sessionRunning, xrBeginSessionCalls,
                           xrEndSessionCalls, exitRenderLoop, requestRestart, xrDrained>>
       ELSE /\ xrEvents' = Tail(xrEvents)
            /\ CASE Head(xrEvents).type = "XR_TYPE_EVENT_DATA_INSTANCE_LOSS_PENDING" ->
                        /\ exitRenderLoop' = TRUE
                        /\ requestRestart' = FALSE
                        /\ xrDrained' = Append(xrDrained, Head(xrEvents).type)
                        /\ runPc' = "RenderLoop"
                        /\ UNCHANGED <<m_sessionState, m_sessionRunning,
                                       xrBeginSessionCalls, xrEndSessionCalls>>
                 [] Head(xrEvents).type = "XR_TYPE_EVENT_DATA_SESSION_STATE_CHANGED" ->
                        IF m_session # XR_NULL_HANDLE /\ m_session = Head(xrEvents).session
                        THEN ProcessSessionStateChanged(Head(xrEvents), result)
                        ELSE /\ runPc' = "Aborted"
                             /\ UNCHANGED <<m_sessionState, m_sessionRunning,
                                            xrBeginSessionCalls, xrEndSessionCalls,
                                            exitRenderLoop, requestRestart, xrDrained>>
                 [] OTHER ->
                        /\ runPc' = "PollEvent"
                        /\ UNCHANGED <<m_sessionState, m_sessionRunning,
                                       xrBeginSessionCalls, xrEndSessionCalls,
                                       exitRenderLoop, requestRestart, xrDrained>>
    /\ UNCHANGED <<m_systemId, m_session, m_renderResources, m_holograms, m_mainCubeIndex,
                   m_spinningCubeIndex, m_optionalExtensions, xrEventCount, xrSessionCount,
                   xrGetSystemRetries, xrLiveSessions>>
    /\ UNCHANGED <<m_appSpace, m_graphicsBinding, m_needsCoordinateSystemUpdate,
                   sdkAppSpace, xrFrame>>
    /\ xrVibrated' = {}
    /\ UNCHANGED <<arrVars, dispVars, auxVars>>

\* Run: what follows ProcessEvents in the inner loop, and the test after the loop.
Run_RenderLoop ==
    /\ runPc = "RenderLoop"
    /\ runPc' = IF exitRenderLoop
                THEN IF requestRestart THEN "PrepareSessionRestart" ELSE "Returned"
                ELSE IF m_sessionRunning THEN "PollActions" ELSE "ProcessEvents"
    /\ xrFailed' = {}
    /\ UNCHANGED <<m_systemId, m_session, m_renderResources, m_holograms, m_mainCubeIndex,
                   m_spinningCubeIndex, m_sessionRunning, m_sessionState,
                   m_optionalExtensions, exitRenderLoop, requestRestart, xrEvents,
                   xrEventCount, xrSessionCount, xrBeginSessionCalls, xrEndSessionCalls,
                   xrDrained, xrGetSystemRetries, xrLiveSessions>>
    /\ UNCHANGED <<m_appSpace, m_graphicsBinding, m_needsCoordinateSystemUpdate,
                   sdkAppSpace, xrFrame, xrBegunSessions>>
    /\ xrVibrated' = {}
    /\ UNCHANGED <<arrVars, dispVars, auxVars>>

\* What a hand does in PollActions: the place action is not pressed, or it is,
\* the hand's pose is valid and CreateHologram's call to create the anchor or the
\* reference space returns the result.
HandInputs == {"NotPlaced"} \cup XrResults \cup {"XR_ERROR_CREATE_SPATIAL_ANCHOR_FAILED_MSFT"}

\* A variant of CreateHologram that goes on without a space after any failure to
\* create the anchor.
CreateHologram_GoingOn(result) ==
    IF m_optionalExtensions
    THEN [thrown |-> FALSE,
          holograms |-> IF result = "XR_SUCCESS" THEN <<"anchored">> ELSE <<"withoutSpace">>,
          failed |-> Failures("xrCreateSpatialAnchorMSFT", result)]
    ELSE [thrown |-> result # "XR_SUCCESS",
          holograms |-> IF result = "XR_SUCCESS" THEN <<"inAppSpace">> ELSE <<>>,
          failed |-> Failures("xrCreateReferenceSpace", result)]

\* CreateHologram: whether it throws, the hologram it returns and the call that
\* failed.  With the spatial-anchor extension the anchor is created: on success
\* the hologram gets the anchor's space, on
\* XR_ERROR_CREATE_SPATIAL_ANCHOR_FAILED_MSFT a message is printed and the
\* hologram is returned without a space, any other failure throws.  Without the
\* extension a reference space is created, and a failure throws.
CreateHologram(result) ==
    IF m_optionalExtensions
    THEN CASE result = "XR_SUCCESS" ->
                  [thrown |-> FALSE, holograms |-> <<"anchored">>, failed |-> {}]
           [] result = "XR_ERROR_CREATE_SPATIAL_ANCHOR_FAILED_MSFT" ->
                  [thrown |-> FALSE, holograms |-> <<"withoutSpace">>,
                   failed |-> Failures("xrCreateSpatialAnchorMSFT", result)]
           [] OTHER ->
                  [thrown |-> TRUE, holograms |-> <<>>,
                   failed |-> Failures("xrCreateSpatialAnchorMSFT", result)]
    ELSE [thrown |-> result # "XR_SUCCESS",
          holograms |-> IF result = "XR_SUCCESS" THEN <<"inAppSpace">> ELSE <<>>,
          failed |-> Failures("xrCreateReferenceSpace", result)]

\* What a hand does in PollActions, also: the place action is pressed and the pose
\* xrLocateSpace gives for the hand at the action's lastChangeTime is not valid.
PlaceInputs == HandInputs \cup {"PoseInvalid"}

\* PollActions, one hand: nothing when the place action is not pressed or the
\* hand's pose is not valid, else m_holograms.push_back(CreateHologram(...)).
PollActions_Side(input) ==
    IF input \in {"NotPlaced", "PoseInvalid"}
    THEN [thrown |-> FALSE, holograms |-> <<>>, failed |-> {}]
    ELSE CreateHologram(input)

\* The holograms PollActions appends: those of the left hand, then those of the
\* right hand unless the left hand's CreateHologram has thrown.
PlacedHolograms(placed) ==
    PollActions_Side(placed[0]).holograms
        \o (IF PollActions_Side(placed[0]).thrown
            THEN <<>>
            ELSE PollActions_Side(placed[1]).holograms)

\* A variant of PollActions that vibrates a hand only when it has placed a
\* hologram.
PollActions_Vibrated_OnPlacement(placed) ==
    {side \in {0, 1} :
        /\ placed[side] \notin {"NotPlaced", "PoseInvalid"}
        /\ ~PollActions_Side(placed[side]).thrown
        /\ side = 1 => ~PollActions_Side(placed[0]).thrown}

\* PollActions: the hands ApplyVibration is called for after a pressed place
\* action: those whose action is pressed, unless CreateHologram has thrown for
\* the hand or for the hand before it.
PollActions_Vibrated(placed) ==
    {side \in {0, 1} :
        /\ placed[side] # "NotPlaced"
        /\ ~PollActions_Side(placed[side]).thrown
        /\ side = 1 => ~PollActions_Side(placed[0]).thrown}

\* Run: PollActions.  result is what xrSyncActions returns, placed[side] what the
\* hand does.  A failure of xrSyncActions throws before the hands are looked at;
\* a CreateHologram that throws ends the function there.
Run_PollActions(placed, result) ==
    /\ runPc = "PollActions"
    /\ IF result # "XR_SUCCESS"
       THEN /\ xrFailed' = Failures("xrSyncActions", result)
            /\ runPc' = "Aborted"
            /\ UNCHANGED m_holograms
       ELSE /\ Len(m_holograms) + Len(PlacedHolograms(placed)) <= MaxHolograms
            /\ m_holograms' = m_holograms \o PlacedHolograms(placed)
            /\ IF PollActions_Side(placed[0]).thrown
               THEN /\ xrFailed' = PollActions_Side(placed[0]).failed
                    /\ runPc' = "Aborted"
               ELSE /\ xrFailed' = PollActions_Side(placed[0]).failed
                                       \cup PollActions_Side(placed[1]).failed
                    /\ runPc' = IF PollActions_Side(placed[1]).thrown
                                THEN "Aborted" ELSE "UpdateARR"
    /\ UNCHANGED <<m_systemId, m_session, m_renderResources, m_mainCubeIndex,
                   m_spinningCubeIndex, m_sessionRunning, m_sessionState,
                   m_optionalExtensions, exitRenderLoop, requestRestart, xrEvents,
                   xrEventCount, xrSessionCount, xrBeginSessionCalls, xrEndSessionCalls,
                   xrDrained, xrGetSystemRetries, xrLiveSessions>>
    /\ UNCHANGED <<m_appSpace, m_graphicsBinding, m_needsCoordinateSystemUpdate,
                   sdkAppSpace, xrFrame, xrBegunSessions>>
    /\ xrVibrated' = (IF result # "XR_SUCCESS" THEN {} ELSE PollActions_Vibrated(placed))
    /\ UNCHANGED <<arrVars, dispVars, auxVars>>

\* A variant of InitializeSpinningCube that starts the list of holograms afresh.
InitializeSpinningCube_Afresh ==
    /\ m_holograms' = <<"mainCube", "spinningCube">>
    /\ m_mainCubeIndex' = Optional(0)
    /\ m_spinningCubeIndex' = Optional(1)

\* InitializeSpinningCube: pushes the main cube and the spinning cube and keeps
\* the index of each, (uint32_t)m_holograms.size() - 1 after its push_back.
InitializeSpinningCube ==
    /\ m_holograms' = m_holograms \o <<"mainCube", "spinningCube">>
    /\ m_mainCubeIndex' = Optional(Len(m_holograms))
    /\ m_spinningCubeIndex' = Optional(Len(m_holograms) + 1)

\* Run: UpdateARR, the part after UpdateStatusText that gives the graphics binding
\* the app space: once, while m_needsCoordinateSystemUpdate is set and the app
\* space and the binding are there.
Run_UpdateARR ==
    /\ runPc = "UpdateARR"
    /\ IF m_needsCoordinateSystemUpdate /\ m_appSpace # XR_NULL_HANDLE /\ m_graphicsBinding
       THEN /\ sdkAppSpace' = m_appSpace
            /\ m_needsCoordinateSystemUpdate' = FALSE
       ELSE UNCHANGED <<sdkAppSpace, m_needsCoordinateSystemUpdate>>
    /\ xrFailed' = {}
    /\ runPc' = "RenderFrame"
    /\ UNCHANGED <<m_systemId, m_session, m_renderResources, m_holograms, m_mainCubeIndex,
                   m_spinningCubeIndex, m_sessionRunning, m_sessionState,
                   m_optionalExtensions, exitRenderLoop, requestRestart, xrEvents,
                   xrEventCount, xrSessionCount, xrBeginSessionCalls, xrEndSessionCalls,
                   xrDrained, xrGetSystemRetries, xrLiveSessions, m_appSpace,
                   m_graphicsBinding, xrFrame, xrBegunSessions>>
    /\ xrVibrated' = {}
    /\ UNCHANGED <<arrVars, dispVars, auxVars>>

\* SetNewSession, run on the SDK's thread when the rendering session that InitARR
\* asked for is there: m_graphicsBinding = m_renderingSession->GetGraphicsBinding().
\* The field is read by UpdateARR alone, so the callback is taken to run just
\* before one UpdateARR or another.
SetNewSession_GraphicsBinding ==
    /\ runPc = "UpdateARR"
    /\ ~m_graphicsBinding
    /\ m_graphicsBinding' = TRUE
    /\ UNCHANGED <<runPc, m_systemId, m_session, m_renderResources, m_holograms,
                   m_mainCubeIndex, m_spinningCubeIndex, m_sessionRunning, m_sessionState,
                   m_optionalExtensions, exitRenderLoop, requestRestart, xrEvents,
                   xrEventCount, xrSessionCount, xrBeginSessionCalls, xrEndSessionCalls,
                   xrDrained, xrFailed, xrGetSystemRetries, xrLiveSessions, m_appSpace,
                   m_needsCoordinateSystemUpdate, sdkAppSpace, xrFrame, xrBegunSessions>>
    /\ UNCHANGED xrVibrated
    /\ UNCHANGED <<arrVars, dispVars, auxVars>>

\* AcquireAndWaitForSwapchainImage(handle): xrAcquireSwapchainImage, then
\* xrWaitSwapchainImage with an infinite timeout.
AcquireAndWaitForSwapchainImage(handle) ==
    <<FrameCall("xrAcquireSwapchainImage", handle), FrameCall("xrWaitSwapchainImage", handle)>>

\* UpdateSpinningCube: the calls of InitializeSpinningCube when either index is
\* unset, one xrCreateReferenceSpace for each of the two cubes.
UpdateSpinningCube_Calls ==
    IF ~m_mainCubeIndex.has_value \/ ~m_spinningCubeIndex.has_value
    THEN <<FrameCall("xrCreateReferenceSpace", "mainCube"),
           FrameCall("xrCreateReferenceSpace", "spinningCube")>>
    ELSE <<>>

\* UpdateVisibleCube for each cube of the list: xrLocateSpace when the cube has a
\* space.
RECURSIVE UpdateVisibleCube_Calls(_)
UpdateVisibleCube_Calls(cubes) ==
    IF cubes = <<>>
    THEN <<>>
    ELSE (IF Head(cubes) = "withoutSpace"
          THEN <<>>
          ELSE <<FrameCall("xrLocateSpace", Head(cubes))>>)
         \o UpdateVisibleCube_Calls(Tail(cubes))

\* A variant of RenderLayer that does not release the depth image.
RenderLayer_Calls_KeepingDepth ==
    UpdateSpinningCube_Calls
        \o UpdateVisibleCube_Calls(<<"leftHand", "rightHand">> \o m_holograms
               \o (IF UpdateSpinningCube_Calls = <<>>
                   THEN <<>> ELSE <<"mainCube", "spinningCube">>))
        \o <<FrameCall("xrLocateSpace", "statusDisplay")>>
        \o AcquireAndWaitForSwapchainImage("color")
        \o AcquireAndWaitForSwapchainImage("depth")
        \o <<FrameCall("xrReleaseSwapchainImage", "color")>>

\* RenderLayer with a valid view pose: the OpenXR calls it makes, in order, when
\* none fails.  The cubes of the two hands and the holograms (with the two cubes
\* of InitializeSpinningCube when it has run) are located, then the status
\* display; the color and the depth image are acquired and waited for, the views
\* are rendered and the two images are released.
RenderLayer_Calls ==
    UpdateSpinningCube_Calls
        \o UpdateVisibleCube_Calls(<<"leftHand", "rightHand">> \o m_holograms
               \o (IF UpdateSpinningCube_Calls = <<>>
                   THEN <<>> ELSE <<"mainCube", "spinningCube">>))
        \o <<FrameCall("xrLocateSpace", "statusDisplay")>>
        \o AcquireAndWaitForSwapchainImage("color")
        \o AcquireAndWaitForSwapchainImage("depth")
        \o <<FrameCall("xrReleaseSwapchainImage", "color"),
             FrameCall("xrReleaseSwapchainImage", "depth")>>

\* A variant of RenderFrame's calls that ends the frame before it begins it.
RenderFrame_Calls_EndFirst(shouldRender, poseValid) ==
    <<FrameCall("xrWaitFrame", "session"), FrameCall("xrEndFrame", "session")>>
        \o (IF shouldRender
            THEN <<FrameCall("xrLocateViews", "session")>>
                     \o (IF poseValid THEN RenderLayer_Calls ELSE <<>>)
            ELSE <<>>)
        \o <<FrameCall("xrBeginFrame", "session")>>

\* RenderFrame: the OpenXR calls it makes, in order, when none fails.
\* shouldRender is the frame state xrWaitFrame returns, poseValid whether the
\* view pose xrLocateViews returns is valid: RenderLayer returns false at once
\* when it is not.
RenderFrame_Calls(shouldRender, poseValid) ==
    <<FrameCall("xrWaitFrame", "session"), FrameCall("xrBeginFrame", "session")>>
        \o (IF shouldRender
            THEN <<FrameCall("xrLocateViews", "session")>>
                     \o (IF poseValid THEN RenderLayer_Calls ELSE <<>>)
            ELSE <<>>)
        \o <<FrameCall("xrEndFrame", "session")>>

\* The longest list of calls a frame makes: the holograms are those placed and
\* the two cubes of InitializeSpinningCube.
MaxFrameCalls == 3 + 2 + (2 + MaxHolograms + 2) + 1 + 4 + 2 + 1

\* RenderFrame: layers.size(), the number of layers given to xrEndFrame.  The
\* projection layer is pushed when the frame should be rendered and RenderLayer
\* returns true.
RenderFrame_Layers(shouldRender, poseValid) ==
    IF shouldRender /\ poseValid THEN 1 ELSE 0

\* Run: RenderFrame.  Every OpenXR call is checked: the call number failAt fails
\* and throws (none when failAt is 0).  The calls made are kept in xrFrame, with
\* the number of layers once xrEndFrame is called.  InitializeSpinningCube pushes
\* a cube after each xrCreateReferenceSpace that succeeded.
Run_RenderFrame(shouldRender, poseValid, failAt) ==
    /\ runPc = "RenderFrame"
    /\ IF m_session = XR_NULL_HANDLE
       THEN /\ failAt = 0
            /\ runPc' = "Aborted"
            /\ xrFailed' = {}
            /\ xrFrame' = NoFrame
            /\ UNCHANGED <<m_holograms, m_mainCubeIndex, m_spinningCubeIndex>>
       ELSE LET calls == RenderFrame_Calls(shouldRender, poseValid)
                made == IF failAt = 0 THEN calls ELSE SubSeq(calls, 1, failAt)
                succeeded == IF failAt = 0 THEN calls ELSE SubSeq(calls, 1, failAt - 1)
                created == Cardinality({i \in DOMAIN succeeded :
                                            succeeded[i].fn = "xrCreateReferenceSpace"})
            IN /\ failAt <= Len(calls)
               /\ shouldRender \/ poseValid
               /\ xrFrame' = [calls |-> made,
                              shouldRender |-> shouldRender,
                              poseValid |-> poseValid,
                              layerCount |->
                                  IF Len(made) = Len(calls)
                                  THEN RenderFrame_Layers(shouldRender, poseValid)
                                  ELSE -1]
               /\ xrFailed' = IF failAt = 0
                              THEN {}
                              ELSE {Failure(calls[failAt].fn, "XR_ERROR")}
               /\ runPc' = IF failAt = 0 THEN "ProcessEvents" ELSE "Aborted"
               /\ CASE created = 2 -> InitializeSpinningCube
                    [] created = 1 ->
                           /\ m_holograms' = Append(m_holograms, "mainCube")
                           /\ m_mainCubeIndex' = Optional(Len(m_holograms))
                           /\ UNCHANGED m_spinningCubeIndex
                    [] OTHER ->
                           UNCHANGED <<m_holograms, m_mainCubeIndex, m_spinningCubeIndex>>
    /\ UNCHANGED <<m_systemId, m_session, m_renderResources, m_sessionRunning,
                   m_sessionState, m_optionalExtensions, exitRenderLoop, requestRestart,
                   xrEvents, xrEventCount, xrSessionCount, xrBeginSessionCalls,
                   xrEndSessionCalls, xrDrained, xrGetSystemRetries, xrLiveSessions,
                   m_appSpace, m_graphicsBinding, m_needsCoordinateSystemUpdate,
                   sdkAppSpace, xrBegunSessions>>
    /\ xrVibrated' = {}
    /\ UNCHANGED <<arrVars, dispVars, auxVars>>


\* A variant of PrepareSessionRestart that keeps the holograms.
PrepareSessionRestart_KeepingHolograms ==
    /\ m_mainCubeIndex' = nullopt
    /\ m_spinningCubeIndex' = nullopt
    /\ m_holograms' = m_holograms
    /\ m_renderResources' = FALSE
    /\ m_session' = XR_NULL_HANDLE
    /\ m_systemId' = XR_NULL_SYSTEM_ID

\* A variant of PrepareSessionRestart that keeps the indices of the two cubes.
PrepareSessionRestart_KeepingIndices ==
    /\ UNCHANGED <<m_mainCubeIndex, m_spinningCubeIndex>>
    /\ m_holograms' = <<>>
    /\ m_renderResources' = FALSE
    /\ m_session' = XR_NULL_HANDLE
    /\ m_systemId' = XR_NULL_SYSTEM_ID

\* A variant of PrepareSessionRestart that keeps the system id.
PrepareSessionRestart_KeepingSystem ==
    /\ m_mainCubeIndex' = nullopt
    /\ m_spinningCubeIndex' = nullopt
    /\ m_holograms' = <<>>
    /\ m_renderResources' = FALSE
    /\ m_session' = XR_NULL_HANDLE
    /\ m_systemId' = m_systemId

\* PrepareSessionRestart
PrepareSessionRestart ==
    /\ m_mainCubeIndex' = nullopt
    /\ m_spinningCubeIndex' = nullopt
    /\ m_holograms' = <<>>
    /\ m_renderResources' = FALSE
    /\ m_session' = XR_NULL_HANDLE
    /\ m_systemId' = XR_NULL_SYSTEM_ID

\* Run: if (requestRestart) PrepareSessionRestart(); then the outer loop starts over.
\* m_session.Reset() destroys the session.
Run_PrepareSessionRestart ==
    /\ runPc = "PrepareSessionRestart"
    /\ PrepareSessionRestart
    /\ xrLiveSessions' = xrLiveSessions \ {m_session}
    /\ xrBegunSessions' = xrBegunSessions \ {m_session}
    /\ xrFailed' = {}
    /\ runPc' = "InitializeSystem"
    /\ UNCHANGED <<m_sessionRunning, m_sessionState, m_optionalExtensions, exitRenderLoop,
                   requestRestart, xrEvents, xrEventCount, xrSessionCount,
                   xrBeginSessionCalls, xrEndSessionCalls, xrDrained, xrGetSystemRetries>>
    /\ UNCHANGED <<m_appSpace, m_graphicsBinding, m_needsCoordinateSystemUpdate,
                   sdkAppSpace, xrFrame>>
    /\ xrVibrated' = {}
    /\ UNCHANGED <<arrVars, dispVars, auxVars>>

\* The runtime queues an event; a session-state change is for the session that
\* exists at that time.
Runtime_QueueEvent(kind) ==
    /\ runPc \notin {"Returned", "Aborted"}
    /\ xrEventCount < MaxEvents
    /\ kind.type = "XR_TYPE_EVENT_DATA_SESSION_STATE_CHANGED" => m_session # XR_NULL_HANDLE
    /\ xrEvents' = Append(xrEvents, [type |-> kind.type, state |-> kind.state,
                                     session |-> m_session])
    /\ xrEventCount' = xrEventCount + 1
    /\ UNCHANGED <<runPc, m_systemId, m_session, m_renderResources, m_holograms,
                   m_mainCubeIndex, m_spinningCubeIndex, m_sessionRunning, m_sessionState,
                   m_optionalExtensions, exitRenderLoop, requestRestart, xrSessionCount,
                   xrBeginSessionCalls, xrEndSessionCalls, xrDrained, xrFailed,
                   xrGetSystemRetries, xrLiveSessions>>
    /\ UNCHANGED <<m_appSpace, m_graphicsBinding, m_needsCoordinateSystemUpdate,
                   sdkAppSpace, xrFrame, xrBegunSessions>>
    /\ UNCHANGED xrVibrated
    /\ UNCHANGED <<arrVars, dispVars, auxVars>>

(***************************************************************************)
(* StatusDisplay: the list of text lines, written by the thread that sets  *)
(* the status text and read by the thread that draws (Render).  Assertions *)
(* are modelled as compiled in: one that fails ends the program.           *)
(***************************************************************************)

TEXTURE_HEIGHT == 650
FontSizeLarge == 32
FontSizeSmall == 22

\* enum TextFormat and enum TextColor
TextFormats == {"Small", "Large", "LargeBold"}
TextColors == {"White", "Yellow", "Red", "Green"}

\* A StatusDisplay::Line.  lineHeightMultiplier is in tenths: 10 stands for 1.0f.
StatusDisplay_Line(text, format, color, lineHeightMultiplier, alignBottom) ==
    [text |-> text, format |-> format, color |-> color,
     lineHeightMultiplier |-> lineHeightMultiplier, alignBottom |-> alignBottom]

\* winrt::com_ptr<IDWriteTextLayout>: null, or the layout DirectWrite has made
\* of a text in a format.
nullptr == [null |-> TRUE, text |-> "", format |-> "Large"]
CreateTextLayout(text, format) == [null |-> FALSE, text |-> text, format |-> format]

\* IDWriteTextLayout::GetMetrics: of DWRITE_TEXT_METRICS the height, here the
\* size of the format's font (the texts have one line).
GetMetrics(layout) ==
    [height |-> IF layout.format = "Small" THEN FontSizeSmall ELSE FontSizeLarge]

\* A StatusDisplay::RuntimeLine as resize() constructs it.
RuntimeLine ==
    [layout |-> nullptr, metrics |-> [height |-> 0], text |-> "", format |-> "Large",
     color |-> "White", lineHeightMultiplier |-> 10, alignBottom |-> FALSE]

\* A variant of resize that never makes the list shorter.
Resize_Growing(lines, count) ==
    [i \in 1..(IF count < Len(lines) THEN Len(lines) ELSE count) |->
        IF i <= Len(lines) THEN lines[i] ELSE RuntimeLine]

\* std::vector::resize
Resize(lines, count) ==
    [i \in 1..count |-> IF i <= Len(lines) THEN lines[i] ELSE RuntimeLine]

\* A variant of the test of UpdateLineInternal that looks at the text alone.
NeedsLayout_TextAlone(runtimeLine, line) ==
    line.text # runtimeLine.text

\* UpdateLineInternal: the test that decides whether the layout is made anew.
NeedsLayout(runtimeLine, line) ==
    line.format # runtimeLine.format \/ line.text # runtimeLine.text

\* UpdateLineInternal: the runtime line after the call.
UpdateLineInternal(runtimeLine, line) ==
    IF NeedsLayout(runtimeLine, line)
    THEN [layout |-> CreateTextLayout(line.text, line.format),
          metrics |-> GetMetrics(CreateTextLayout(line.text, line.format)),
          text |-> line.text,
          format |-> line.format,
          color |-> line.color,
          lineHeightMultiplier |-> line.lineHeightMultiplier,
          alignBottom |-> line.alignBottom]
    ELSE [runtimeLine EXCEPT !.color = line.color,
                             !.lineHeightMultiplier = line.lineHeightMultiplier,
                             !.alignBottom = line.alignBottom]

\* The lines and texts the operations are called with.
TestLines ==
    {StatusDisplay_Line("", "Large", "White", 10, FALSE),
     StatusDisplay_Line("A", "Large", "White", 10, FALSE),
     StatusDisplay_Line("A", "Large", "Red", 12, TRUE),
     StatusDisplay_Line("A", "Small", "Yellow", 10, TRUE),
     StatusDisplay_Line("B", "Small", "White", 10, FALSE)}
TestTexts == {"A", "B"}

\* The sequences of test lines of a length up to n.
LineArrays(n) == UNION {[1..k -> TestLines] : k \in 0..n}

\* A call of an operation of StatusDisplay: its name, its arguments, the loop
\* counter of SetLines and the value returned.
Call(name, lines, index, text) ==
    [name |-> name, lines |-> lines, index |-> index, text |-> text, i |-> 0,
     newIndex |-> 0, hasLine |-> FALSE]
NoCall == Call("-", <<>>, 0, "")

\* The calls the thread that sets the status text makes.
Calls ==
    {Call("ClearLines", <<>>, 0, "")}
    \cup {Call("SetLines", lines, 0, "") : lines \in LineArrays(MaxLines)}
    \cup {Call("UpdateLineText", <<>>, index, text) : index \in 0..MaxLines, text \in TestTexts}
    \cup {Call("AddLine", <<line>>, 0, "") : line \in TestLines}
    \cup {Call("HasLine", <<>>, index, "") : index \in 0..MaxLines}

\* A variant of the lock that does not wait for the mutex.
scoped_lock_NotWaiting(thread) ==
    m_lineMutex' = thread

\* std::scoped_lock lock(m_lineMutex): waits until the mutex is free and takes it.
scoped_lock(thread) ==
    /\ m_lineMutex = "free"
    /\ m_lineMutex' = thread

\* The first statement of ClearLines, SetLines, UpdateLineText, AddLine and HasLine.
StatusDisplay_Lock(call) ==
    /\ updPc = "Idle"
    /\ call.name = "AddLine" => Len(m_lines) < MaxLines
    /\ scoped_lock("update")
    /\ updOp' = call
    /\ updPc' = IF call.name = "SetLines" THEN "SetLines_Resize" ELSE call.name
    /\ UNCHANGED <<m_lines, m_textEnabled, dwLayoutCreated, renderPc, renderTop, renderDrawn>>
    /\ UNCHANGED <<arrVars, runVars, auxVars>>

\* ClearLines: m_lines.resize(0).
ClearLines ==
    /\ updPc = "ClearLines"
    /\ m_lines' = Resize(m_lines, 0)
    /\ updPc' = "Return"
    /\ UNCHANGED <<m_lineMutex, m_textEnabled, updOp, dwLayoutCreated, renderPc, renderTop,
                   renderDrawn>>
    /\ UNCHANGED <<arrVars, runVars, auxVars>>

\* SetLines: m_lines.resize(numLines).
SetLines_Resize ==
    /\ updPc = "SetLines_Resize"
    /\ m_lines' = Resize(m_lines, Len(updOp.lines))
    /\ updPc' = IF Len(updOp.lines) = 0 THEN "Return" ELSE "SetLines_Loop"
    /\ UNCHANGED <<m_lineMutex, m_textEnabled, updOp, dwLayoutCreated, renderPc, renderTop,
                   renderDrawn>>
    /\ UNCHANGED <<arrVars, runVars, auxVars>>

\* A variant of the assertion of SetLines that lets no line be aligned to the
\* bottom.
SetLines_Assertion_NoLine(lines, i) ==
    ~lines[i + 1].alignBottom

\* SetLines: the condition asserted for lines[i], "Only the last line can use
\* alignBottom = true".
SetLines_Assertion(lines, i) ==
    ~lines[i + 1].alignBottom \/ i = Len(lines) - 1

\* SetLines: one round of the loop, for the line lines[i]: the assertion, then
\* UpdateLineInternal(m_lines[i], lines[i]).
SetLines_Loop ==
    /\ updPc = "SetLines_Loop"
    /\ IF ~SetLines_Assertion(updOp.lines, updOp.i)
       THEN /\ updPc' = "AssertionFailed"
            /\ UNCHANGED <<m_lines, updOp, dwLayoutCreated>>
       ELSE /\ m_lines' = [m_lines EXCEPT ![updOp.i + 1] =
                              UpdateLineInternal(@, updOp.lines[updOp.i + 1])]
            /\ dwLayoutCreated' =
                   NeedsLayout(m_lines[updOp.i + 1], updOp.lines[updOp.i + 1])
            /\ updOp' = [updOp EXCEPT !.i = @ + 1]
            /\ updPc' = IF updOp.i + 1 = Len(updOp.lines) THEN "Return" ELSE "SetLines_Loop"
    /\ UNCHANGED <<m_lineMutex, m_textEnabled, renderPc, renderTop, renderDrawn>>
    /\ UNCHANGED <<arrVars, runVars, auxVars>>

\* UpdateLineText: the assertion on the index, then UpdateLineInternal with
\* Line{text, format, color, lineHeightMultiplier} of the runtime line; the
\* initialiser names no alignBottom, so the Line has the member's default.
UpdateLineText ==
    /\ updPc = "UpdateLineText"
    /\ IF ~(updOp.index < Len(m_lines))
       THEN /\ updPc' = "AssertionFailed"
            /\ UNCHANGED <<m_lines, dwLayoutCreated>>
       ELSE /\ m_lines' = [m_lines EXCEPT ![updOp.index + 1] =
                              UpdateLineInternal(@,
                                  StatusDisplay_Line(updOp.text, @.format, @.color,
                                                     @.lineHeightMultiplier, FALSE))]
            /\ dwLayoutCreated' =
                   NeedsLayout(m_lines[updOp.index + 1],
                               StatusDisplay_Line(updOp.text,
                                                  m_lines[updOp.index + 1].format,
                                                  m_lines[updOp.index + 1].color,
                                                  m_lines[updOp.index + 1].lineHeightMultiplier,
                                                  FALSE))
            /\ updPc' = "Return"
    /\ UNCHANGED <<m_lineMutex, m_textEnabled, updOp, renderPc, renderTop, renderDrawn>>
    /\ UNCHANGED <<arrVars, runVars, auxVars>>

\* A variant of AddLine that returns the size of the list.
AddLine_ReturningSize ==
    /\ updPc = "AddLine"
    /\ m_lines' = [Resize(m_lines, Len(m_lines) + 1) EXCEPT ![Len(m_lines) + 1] =
                      UpdateLineInternal(@, updOp.lines[1])]
    /\ dwLayoutCreated' = NeedsLayout(RuntimeLine, updOp.lines[1])
    /\ updOp' = [updOp EXCEPT !.newIndex = Len(m_lines) + 1]
    /\ updPc' = "Return"
    /\ UNCHANGED <<m_lineMutex, m_textEnabled, renderPc, renderTop, renderDrawn>>
    /\ UNCHANGED <<arrVars, runVars, auxVars>>

\* AddLine: newIndex = m_lines.size(), resize(newIndex + 1),
\* UpdateLineInternal(m_lines[newIndex], line), return newIndex.
AddLine ==
    /\ updPc = "AddLine"
    /\ m_lines' = [Resize(m_lines, Len(m_lines) + 1) EXCEPT ![Len(m_lines) + 1] =
                      UpdateLineInternal(@, updOp.lines[1])]
    /\ dwLayoutCreated' = NeedsLayout(RuntimeLine, updOp.lines[1])
    /\ updOp' = [updOp EXCEPT !.newIndex = Len(m_lines)]
    /\ updPc' = "Return"
    /\ UNCHANGED <<m_lineMutex, m_textEnabled, renderPc, renderTop, renderDrawn>>
    /\ UNCHANGED <<arrVars, runVars, auxVars>>

\* HasLine: the value returned for the index when the list is lines.
HasLine_Value(lines, index) == index < Len(lines)

\* HasLine: return index < m_lines.size().
HasLine ==
    /\ updPc = "HasLine"
    /\ updOp' = [updOp EXCEPT !.hasLine = HasLine_Value(m_lines, updOp.index)]
    /\ updPc' = "Return"
    /\ UNCHANGED <<m_lines, m_lineMutex, m_textEnabled, dwLayoutCreated, renderPc, renderTop,
                   renderDrawn>>
    /\ UNCHANGED <<arrVars, runVars, auxVars>>

\* The end of ClearLines, SetLines, UpdateLineText, AddLine and HasLine: the lock
\* goes out of scope.
StatusDisplay_Return ==
    /\ updPc = "Return"
    /\ m_lineMutex' = "free"
    /\ updPc' = "Idle"
    /\ updOp' = NoCall
    /\ dwLayoutCreated' = FALSE
    /\ UNCHANGED <<m_lines, m_textEnabled, renderPc, renderTop, renderDrawn>>
    /\ UNCHANGED <<arrVars, runVars, auxVars>>

\* SetTextEnabled
SetTextEnabled(enabled) ==
    /\ updPc = "Idle"
    /\ m_textEnabled # enabled
    /\ m_textEnabled' = enabled
    /\ UNCHANGED <<m_lines, m_lineMutex, updPc, updOp, dwLayoutCreated, renderPc, renderTop,
                   renderDrawn>>
    /\ UNCHANGED <<arrVars, runVars, auxVars>>

\* Render: returns at once when the text is disabled, else clears the target and
\* begins to draw.
Render_BeginDraw ==
    /\ renderPc = "Idle"
    /\ m_textEnabled
    /\ renderPc' = "Lock"
    /\ UNCHANGED <<m_lines, m_lineMutex, m_textEnabled, updPc, updOp, dwLayoutCreated,
                   renderTop, renderDrawn>>
    /\ UNCHANGED <<arrVars, runVars, auxVars>>

\* Render: takes the lock; with lines in the list, top = m_lines[0].metrics.height.
\* The top is in tenths of a pixel.
Render_Lock ==
    /\ renderPc = "Lock"
    /\ scoped_lock("render")
    /\ renderDrawn' = <<>>
    /\ IF Len(m_lines) > 0
       THEN /\ renderTop' = m_lines[1].metrics.height * 10
            /\ renderPc' = "Draw"
       ELSE /\ renderTop' = 0
            /\ renderPc' = "Unlock"
    /\ UNCHANGED <<m_lines, m_textEnabled, updPc, updOp, dwLayoutCreated>>
    /\ UNCHANGED <<arrVars, runVars, auxVars>>

\* The top at which Render draws the line, given the top it has reached.
DrawTop(line, top) ==
    IF line.alignBottom THEN (TEXTURE_HEIGHT - line.metrics.height) * 10 ELSE top

\* Render: one round of the loop over m_lines, which draws the next line with
\* DrawTextLayout and moves the top down.
Render_Draw ==
    /\ renderPc = "Draw"
    /\ IF Len(renderDrawn) < Len(m_lines)
       THEN /\ renderDrawn' =
                   Append(renderDrawn,
                          [top |-> DrawTop(m_lines[Len(renderDrawn) + 1], renderTop),
                           layout |-> m_lines[Len(renderDrawn) + 1].layout,
                           color |-> m_lines[Len(renderDrawn) + 1].color])
            /\ renderTop' = DrawTop(m_lines[Len(renderDrawn) + 1], renderTop)
                               + m_lines[Len(renderDrawn) + 1].metrics.height
                                   * m_lines[Len(renderDrawn) + 1].lineHeightMultiplier
            /\ renderPc' = IF Len(renderDrawn) + 1 < Len(m_lines) THEN "Draw" ELSE "Unlock"
       ELSE /\ renderPc' = "Unlock"
            /\ UNCHANGED <<renderDrawn, renderTop>>
    /\ UNCHANGED <<m_lines, m_lineMutex, m_textEnabled, updPc, updOp, dwLayoutCreated>>
    /\ UNCHANGED <<arrVars, runVars, auxVars>>

\* Render: the lock goes out of scope after the loop.
Render_Unlock ==
    /\ renderPc = "Unlock"
    /\ m_lineMutex' = "free"
    /\ renderPc' = "Idle"
    /\ renderTop' = 0
    /\ renderDrawn' = <<>>
    /\ UNCHANGED <<m_lines, m_textEnabled, updPc, updOp, dwLayoutCreated>>
    /\ UNCHANGED <<arrVars, runVars, auxVars>>

(***************************************************************************)
(* OpenXrProgram: the swapchain formats.                                   *)
(***************************************************************************)

\* Values of DXGI_FORMAT: DXGI_FORMAT_R8G8B8A8_UNORM, DXGI_FORMAT_D32_FLOAT,
\* DXGI_FORMAT_B8G8R8A8_UNORM.
DxgiFormats == {28, 40, 87}

\* An int64_t, the type of the formats a runtime enumerates, is a record of its
\* high and its low 32 bits; a DXGI_FORMAT compared with it is converted to
\* int64_t.
FromDxgiFormat(format) == [high |-> 0, low |-> format]

\* (DXGI_FORMAT)*found: the conversion of an int64_t to the enumeration keeps the
\* low 32 bits.
ToDxgiFormat(format) == format.low

\* The formats a runtime may enumerate: the DXGI formats and a value that is no
\* DXGI_FORMAT, whose low 32 bits are those of DXGI_FORMAT_R8G8B8A8_UNORM.
RuntimeFormats ==
    {FromDxgiFormat(format) : format \in DxgiFormats} \cup {[high |-> 1, low |-> 28]}

\* The runtime enumerates at most MaxFormatCount formats, and the graphics plugin
\* supports at most as many of a kind.
MaxFormatCount == 2

\* The sequences over a set of a length up to n.
SeqUpTo(S, n) == UNION {[1..k -> S] : k \in 0..n}

\* std::find_first_of(first, end(seq), begin(among), end(among)): the place of the
\* first element of seq, from first on, that is equal to an element of among;
\* Len(seq) + 1 stands for end(seq).
RECURSIVE FindFirstOf(_, _, _)
FindFirstOf(first, seq, among) ==
    IF first > Len(seq)
    THEN first
    ELSE IF \E j \in DOMAIN among : seq[first] = FromDxgiFormat(among[j])
         THEN first
         ELSE FindFirstOf(first + 1, seq, among)

\* A variant of SelectPixelFormat that goes by the application's order: the first
\* format of the application's list that the runtime's list holds.
SelectPixelFormat_ApplicationOrder(runtimePreferredFormats, applicationSupportedFormats) ==
    LET shared == {j \in DOMAIN applicationSupportedFormats :
                      \E i \in DOMAIN runtimePreferredFormats :
                          runtimePreferredFormats[i]
                              = FromDxgiFormat(applicationSupportedFormats[j])}
    IN  IF shared = {}
        THEN [thrown |-> TRUE, format |-> 0]
        ELSE [thrown |-> FALSE,
              format |-> applicationSupportedFormats[
                             CHOOSE j \in shared : \A k \in shared : j <= k]]

\* The lambda SelectPixelFormat: throws if find_first_of finds nothing, else
\* returns the format found.
SelectPixelFormat(runtimePreferredFormats, applicationSupportedFormats) ==
    LET found == FindFirstOf(1, runtimePreferredFormats, applicationSupportedFormats)
    IN  IF found = Len(runtimePreferredFormats) + 1
        THEN [thrown |-> TRUE, format |-> 0]
        ELSE [thrown |-> FALSE, format |-> ToDxgiFormat(runtimePreferredFormats[found])]

\* What SelectSwapchainPixelFormats has not returned yet.
NoFormats == [thrown |-> FALSE, failed |-> "", color |-> 0, depth |-> 0]

\* SelectSwapchainPixelFormats: result is what xrEnumerateSwapchainFormats
\* returns.  A failed enumeration throws; else the color format is selected,
\* then the depth format, and the first selection that finds nothing throws.
SelectSwapchainPixelFormats(result) ==
    /\ fmtPc = "SelectSwapchainPixelFormats"
    /\ LET color == SelectPixelFormat(swapchainFormats, supportedColorFormats)
           depth == SelectPixelFormat(swapchainFormats, supportedDepthFormats)
       IN  selectedFormats' =
               IF result # "XR_SUCCESS"
               THEN [NoFormats EXCEPT !.thrown = TRUE,
                                      !.failed = "xrEnumerateSwapchainFormats"]
               ELSE IF color.thrown
               THEN [NoFormats EXCEPT !.thrown = TRUE, !.failed = "SelectPixelFormat"]
               ELSE IF depth.thrown
               THEN [NoFormats EXCEPT !.thrown = TRUE, !.failed = "SelectPixelFormat"]
               ELSE [NoFormats EXCEPT !.color = color.format, !.depth = depth.format]
    /\ fmtPc' = "Returned"
    /\ UNCHANGED <<swapchainFormats, supportedColorFormats, supportedDepthFormats>>
    /\ UNCHANGED <<arrVars, runVars, dispVars, padVars, locVars>>

\* The formats before SelectSwapchainPixelFormats is called, with a runtime that
\* enumerates no format and a plugin that supports none.
FormatsInit ==
    /\ swapchainFormats = <<>>
    /\ supportedColorFormats = <<>>
    /\ supportedDepthFormats = <<>>
    /\ selectedFormats = NoFormats
    /\ fmtPc = "SelectSwapchainPixelFormats"

(***************************************************************************)
(* HolographicAppMain: the gamepads.                                       *)
(***************************************************************************)

\* The gamepads of the system are numbered from 1 to MaxGamepads.
MaxGamepads == 4

\* GamepadWithButtonState newGamepad = { args, false }
GamepadWithButtonState(gamepad) == [gamepad |-> gamepad, buttonAWasPressedLastFrame |-> FALSE]

\* A variant of OnGamepadAdded without the test for a gamepad already in the list.
OnGamepadAdded_Always(gamepads, args) ==
    Append(gamepads, GamepadWithButtonState(args))

\* OnGamepadAdded: the list after the call; returns at a gamepad of the list
\* that is equal to args, else pushes the new gamepad to the back.
OnGamepadAdded(gamepads, args) ==
    IF \E i \in DOMAIN gamepads : args = gamepads[i].gamepad
    THEN gamepads
    ELSE Append(gamepads, GamepadWithButtonState(args))

\* OnGamepadRemoved: the list after the call, erase(remove_if(...)): the gamepads
\* other than args in their order.
OnGamepadRemoved(gamepads, args) ==
    SelectSeq(gamepads, LAMBDA gamepadWithState : ~(gamepadWithState.gamepad = args))

\* The constructor: one round of the loop over Gamepad::Gamepads(), which calls
\* OnGamepadAdded for each gamepad connected at that time; the handlers of
\* GamepadAdded and GamepadRemoved are registered before the loop.
Holo_Constructor_Gamepads ==
    /\ padPc = "Constructor"
    /\ IF padSnapshot = <<>>
       THEN /\ padPc' = "Running"
            /\ UNCHANGED <<m_gamepads, padSnapshot>>
       ELSE /\ m_gamepads' = OnGamepadAdded(m_gamepads, Head(padSnapshot))
            /\ padSnapshot' = Tail(padSnapshot)
            /\ UNCHANGED padPc
    /\ UNCHANGED <<sysGamepads, padEvent>>
    /\ UNCHANGED <<arrVars, runVars, dispVars, fmtVars, locVars>>

\* The event GamepadAdded for the gamepad args: the handler OnGamepadAdded.  The
\* system raises it for a gamepad that connects, and may raise it for one that is
\* connected already.  The events are handled one at a time, after the
\* constructor: m_gamepads is read and written without a lock.
Holo_OnGamepadAdded(args) ==
    /\ padPc = "Running"
    /\ sysGamepads' = sysGamepads \cup {args}
    /\ padEvent' = [event |-> "GamepadAdded", args |-> args,
                    connected |-> args \in sysGamepads]
    /\ m_gamepads' = OnGamepadAdded(m_gamepads, args)
    /\ UNCHANGED <<padPc, padSnapshot>>
    /\ UNCHANGED <<arrVars, runVars, dispVars, fmtVars, locVars>>

\* The event GamepadRemoved for the gamepad args: the handler OnGamepadRemoved.
Holo_OnGamepadRemoved(args) ==
    /\ padPc = "Running"
    /\ sysGamepads' = sysGamepads \ {args}
    /\ padEvent' = [event |-> "GamepadRemoved", args |-> args,
                    connected |-> args \in sysGamepads]
    /\ m_gamepads' = OnGamepadRemoved(m_gamepads, args)
    /\ UNCHANGED <<padPc, padSnapshot>>
    /\ UNCHANGED <<arrVars, runVars, dispVars, fmtVars, locVars>>

\* The gamepads of a HolographicAppMain made on a system without a gamepad.
GamepadsInit ==
    /\ m_gamepads = <<>>
    /\ padPc = "Constructor"
    /\ padSnapshot = <<>>
    /\ sysGamepads = {}
    /\ padEvent = [event |-> "", args |-> 0, connected |-> FALSE]

(***************************************************************************)
(* HolographicAppMain: the spatial locator and the stationary reference    *)
(* frame.                                                                  *)
(***************************************************************************)

\* The spatial locators of the system are numbered from 1 to MaxLocators, and
\* NoLocator stands for nullptr; the handler is registered at most
\* MaxRegistrations times.
MaxLocators == 3
MaxRegistrations == 5
NoLocator == 0

\* SpatialStationaryFrameOfReference: nullptr, or the frame made by the call
\* number `made` of CreateStationaryFrameOfReferenceAtCurrentLocation, on the
\* locator.
NoReferenceFrame == [null |-> TRUE, locator |-> NoLocator, made |-> 0]
CreateStationaryFrameOfReferenceAtCurrentLocation(locator, made) ==
    [null |-> FALSE, locator |-> locator, made |-> made]

\* A variant of OnHolographicDisplayIsAvailableChanged that keeps the reference
\* frame when the locator is disconnected.
OnHolographicDisplayIsAvailableChanged_KeepingFrame(spatialLocator) ==
    IF m_spatialLocator # spatialLocator
    THEN IF spatialLocator # NoLocator
            THEN /\ locRegistrations < MaxRegistrations
                 /\ m_spatialLocator' = spatialLocator
                 /\ m_locatabilityChangedToken' = locRegistrations + 1
                 /\ locHandlers' =
                        (locHandlers \ {[locator |-> m_spatialLocator, token |-> m_locatabilityChangedToken]})
                            \cup {[locator |-> spatialLocator, token |-> locRegistrations + 1]}
                 /\ m_stationaryReferenceFrame' =
                        CreateStationaryFrameOfReferenceAtCurrentLocation(
                            spatialLocator, locRegistrations + 1)
                 /\ locRegistrations' = locRegistrations + 1
            ELSE /\ m_spatialLocator' = NoLocator
                 /\ locHandlers' =
                        locHandlers \ {[locator |-> m_spatialLocator, token |-> m_locatabilityChangedToken]}
                 /\ UNCHANGED <<m_stationaryReferenceFrame, m_locatabilityChangedToken,
                                locRegistrations>>
    ELSE UNCHANGED <<m_spatialLocator, m_locatabilityChangedToken, locHandlers,
                     m_stationaryReferenceFrame, locRegistrations>>

\* OnHolographicDisplayIsAvailableChanged; spatialLocator is the local of that
\* name after its first block, the locator of the default HolographicDisplay or
\* SpatialLocator::GetDefault(), or nullptr.  If it is not the locator held, the
\* handler is taken off the locator held, the locator and the frame are set to
\* nullptr and, if there is a new locator, it is kept, the handler is registered
\* on it and a frame is created from it.
OnHolographicDisplayIsAvailableChanged(spatialLocator) ==
    IF m_spatialLocator # spatialLocator
    THEN IF spatialLocator # NoLocator
            THEN /\ locRegistrations < MaxRegistrations
                 /\ m_spatialLocator' = spatialLocator
                 /\ m_locatabilityChangedToken' = locRegistrations + 1
                 /\ locHandlers' =
                        (locHandlers \ {[locator |-> m_spatialLocator, token |-> m_locatabilityChangedToken]})
                            \cup {[locator |-> spatialLocator, token |-> locRegistrations + 1]}
                 /\ m_stationaryReferenceFrame' =
                        CreateStationaryFrameOfReferenceAtCurrentLocation(
                            spatialLocator, locRegistrations + 1)
                 /\ locRegistrations' = locRegistrations + 1
            ELSE /\ m_spatialLocator' = NoLocator
                 /\ locHandlers' =
                        locHandlers \ {[locator |-> m_spatialLocator, token |-> m_locatabilityChangedToken]}
                 /\ m_stationaryReferenceFrame' = NoReferenceFrame
                 /\ UNCHANGED <<m_locatabilityChangedToken, locRegistrations>>
    ELSE UNCHANGED <<m_spatialLocator, m_locatabilityChangedToken, locHandlers,
                     m_stationaryReferenceFrame, locRegistrations>>

\* The constructor's last statement: OnHolographicDisplayIsAvailableChanged(nullptr,
\* nullptr), to acquire the current state of the default display and its locator.
Holo_Constructor_DisplayIsAvailableChanged(spatialLocator) ==
    /\ locPc = "Constructor"
    /\ OnHolographicDisplayIsAvailableChanged(spatialLocator)
    /\ locPc' = "SetHolographicSpace"
    /\ locCalled' = [held |-> m_spatialLocator, found |-> spatialLocator]
    /\ UNCHANGED m_canGetDefaultHolographicDisplay
    /\ UNCHANGED <<arrVars, runVars, dispVars, fmtVars, padVars>>

\* SetHolographicSpace, its first statement UnregisterHolographicEventHandlers:
\* takes the handler off the locator held and keeps the locator.
Holo_SetHolographicSpace_Unregister ==
    /\ locPc \in {"SetHolographicSpace", "Running"}
    /\ locHandlers' =
           IF m_spatialLocator # NoLocator
           THEN locHandlers \ {[locator |-> m_spatialLocator, token |-> m_locatabilityChangedToken]}
           ELSE locHandlers
    /\ locPc' = "Running"
    /\ UNCHANGED <<m_canGetDefaultHolographicDisplay, m_spatialLocator,
                   m_locatabilityChangedToken, m_stationaryReferenceFrame,
                   locRegistrations, locCalled>>
    /\ UNCHANGED <<arrVars, runVars, dispVars, fmtVars, padVars>>

\* The event HolographicSpace::IsAvailableChanged, to which the constructor
\* subscribes if m_canGetDefaultHolographicDisplay.
Holo_OnHolographicDisplayIsAvailableChanged(spatialLocator) ==
    /\ locPc = "Running"
    /\ m_canGetDefaultHolographicDisplay
    /\ OnHolographicDisplayIsAvailableChanged(spatialLocator)
    /\ locCalled' = [held |-> m_spatialLocator, found |-> spatialLocator]
    /\ UNCHANGED <<locPc, m_canGetDefaultHolographicDisplay>>
    /\ UNCHANGED <<arrVars, runVars, dispVars, fmtVars, padVars>>

\* The fields before the constructor's last statement.
LocatorInit ==
    /\ m_canGetDefaultHolographicDisplay = TRUE
    /\ m_spatialLocator = NoLocator
    /\ m_stationaryReferenceFrame = NoReferenceFrame
    /\ m_locatabilityChangedToken = 0
    /\ locHandlers = {}
    /\ locRegistrations = 0
    /\ locPc = "Constructor"
    /\ locCalled = [held |-> NoLocator, found |-> NoLocator]

\* The StatusDisplay after construction.
DisplayInit ==
    /\ m_lines = <<>>
    /\ m_lineMutex = "free"
    /\ m_textEnabled = TRUE
    /\ updPc = "Idle"
    /\ updOp = NoCall
    /\ dwLayoutCreated = FALSE
    /\ renderPc = "Idle"
    /\ renderTop = 0
    /\ renderDrawn = <<>>

\* The state of Run's fields after construction, CreateInstance and CreateActions.
RunInit ==
    /\ runPc = "InitializeSystem"
    /\ m_systemId = XR_NULL_SYSTEM_ID
    /\ m_session = XR_NULL_HANDLE
    /\ m_renderResources = FALSE
    /\ m_holograms = <<>>
    /\ m_mainCubeIndex = nullopt
    /\ m_spinningCubeIndex = nullopt
    /\ m_sessionRunning = FALSE
    /\ m_sessionState = "XR_SESSION_STATE_UNKNOWN"
    /\ exitRenderLoop = FALSE
    /\ requestRestart = FALSE
    /\ xrEvents = <<>>
    /\ xrEventCount = 0
    /\ xrSessionCount = 0
    /\ xrBeginSessionCalls = 0
    /\ xrEndSessionCalls = 0
    /\ xrDrained = <<>>
    /\ xrFailed = {}
    /\ xrGetSystemRetries = 0
    /\ xrLiveSessions = {}
    /\ m_appSpace = XR_NULL_HANDLE
    /\ m_graphicsBinding = FALSE
    /\ m_needsCoordinateSystemUpdate = TRUE
    /\ sdkAppSpace = XR_NULL_HANDLE
    /\ xrFrame = NoFrame
    /\ xrBegunSessions = {}
    /\ xrVibrated = {}

(***************************************************************************)
(* The clock.                                                              *)
(***************************************************************************)
Tick ==
    /\ now + TickStep <= MaxTime
    /\ now' = now + TickStep
    /\ UNCHANGED <<shell, mainPc, sdkPc, sdkArg, m_renderingSession, m_currentStatus,
                   m_statusMsg, m_connectionResult, m_modelLoadResult, m_isConnected,
                   m_sessionStarted, m_modelLoadTriggered,
                   m_sessionPropertiesQueryInProgress, m_sessionPropertiesAsync,
                   m_modelLoadingProgress, m_modelLoadFinished, m_needsStatusUpdate,
                   m_timeAtLastRESTCall, m_delayBetweenRESTCalls, m_sessionStartingTime,
                   m_statusDisplay, sdkCreatePending, sdkQueriesInFlight, sdkLastQueryTime,
                   sdkConnectCalls, sdkConnectPending, sdkConn, sdkLoadsInFlight>>
    /\ UNCHANGED <<runVars, dispVars, auxVars>>

(***************************************************************************)
(* Specification of the remote-rendering glue.                             *)
(***************************************************************************)
\* The default member initialisers of the shell's fields.
ArrInit ==
    /\ shell \in {"OpenXr", "Holo"}
    /\ mainPc = IF shell = "OpenXr" THEN "InitARR" ELSE "Constructor"
    /\ sdkPc = "idle"
    /\ sdkArg = NoArg
    /\ now = 0
    /\ m_renderingSession = NULL
    /\ m_currentStatus = "Disconnected"
    /\ m_statusMsg = ""
    /\ m_connectionResult = "Success"
    /\ m_modelLoadResult = "Success"
    /\ m_isConnected = FALSE
    /\ m_sessionStarted = FALSE
    /\ m_modelLoadTriggered = FALSE
    /\ m_sessionPropertiesQueryInProgress = FALSE
    /\ m_sessionPropertiesAsync = NULL
    /\ m_modelLoadingProgress = 0
    /\ m_modelLoadFinished = FALSE
    /\ m_needsStatusUpdate = TRUE
    /\ m_timeAtLastRESTCall = 0
    /\ m_delayBetweenRESTCalls = 10
    /\ m_sessionStartingTime = 0
    /\ m_statusDisplay = NullDisplay
    /\ sdkCreatePending = FALSE
    /\ sdkQueriesInFlight = 0
    /\ sdkLastQueryTime = 0
    /\ sdkConnectCalls = 0
    /\ sdkConnectPending = FALSE
    /\ sdkConn = "Disconnected"
    /\ sdkLoadsInFlight = 0

Init == ArrInit /\ RunInit /\ m_optionalExtensions = FALSE /\ DisplayInit /\ FormatsInit /\ GamepadsInit /\ LocatorInit

Next ==
    \/ Xr_InitARR
    \/ Xr_InitARR_SetNewState
    \/ Xr_InitializeSession_StatusDisplay
    \/ Xr_UpdateARR
    \/ Xr_UpdateARR_Query
    \/ Xr_UpdateARR_ModelLoad
    \/ Xr_UpdateARR_UpdateStatusText
    \/ \E outcome \in Xr_SessionOutcomes : Xr_SessionHandler(outcome)
    \/ \E outcome \in Xr_PropertiesOutcomes, delay \in MinimumRetryDelays :
            Xr_GetPropertiesCallback(outcome, delay)
    \/ Xr_GetPropertiesCallback_End
    \/ \E status \in ConnectionStatuses, error \in Results :
            Xr_OnConnectionStatusChanged(status, error)
    \/ Xr_OnConnectionStatusChanged_Flags
    \/ Xr_OnConnectionStatusChanged_IsConnected
    \/ \E status \in {"OK", "Failed"} : Xr_LoadModelCompleted(status)
    \/ \E progress \in ProgressValues : Xr_LoadModelProgress(progress)
    \/ Holo_Constructor
    \/ Holo_Constructor_SetNewState
    \/ Holo_SetHolographicSpace
    \/ Holo_Update
    \/ \E propAsync \in BOOLEAN : Holo_Update_Query(propAsync)
    \/ \E loadModel \in BOOLEAN : Holo_Update_ModelLoad(loadModel)
    \/ Holo_Update_UpdateStatusText
    \/ \E outcome \in Holo_SessionOutcomes : Holo_SessionHandler(outcome)
    \/ \E outcome \in Holo_PropertiesOutcomes : Holo_GetPropertiesCompleted(outcome)
    \/ Holo_GetPropertiesCompleted_End
    \/ \E status \in ConnectionStatuses, error \in Results :
            Holo_OnConnectionStatusChanged(status, error)
    \/ Holo_OnConnectionStatusChanged_Flags
    \/ Holo_OnConnectionStatusChanged_IsConnected
    \/ \E result \in Results : Holo_LoadModelCompleted(result)
    \/ \E progress \in ProgressValues : Holo_LoadModelProgress(progress)
    \/ Tick

Spec == Init /\ [][Next]_vars

(***************************************************************************)
(* Properties of the remote-rendering glue (specification Spec).           *)
(***************************************************************************)

\* C1: ConnectionFailed is absorbing: no step of a callback or of the main loop
\* takes the status from ConnectionFailed to another one.
C1_ConnectionFailedIsAbsorbing ==
    [][m_currentStatus = "ConnectionFailed" => m_currentStatus' = "ConnectionFailed"]_vars

\* The chain Disconnected -> CreatingSession -> StartingSession -> Connecting ->
\* Connected, and the step to ConnectionFailed from any status.
LinearTransitions ==
    {<<"Disconnected", "CreatingSession">>, <<"CreatingSession", "StartingSession">>,
     <<"StartingSession", "Connecting">>, <<"Connecting", "Connected">>}
    \cup {<<status, "ConnectionFailed">> : status \in AppConnectionStatus}

\* The transitions the code takes besides the linear ones: those of a Disconnected
\* notification with result Success, those that leave ConnectionFailed, and those
\* of callbacks that overtake the main thread.
OtherTransitions ==
    {<<"Connecting", "Disconnected">>, <<"Connected", "Disconnected">>,
     <<"ConnectionFailed", "Disconnected">>, <<"ConnectionFailed", "CreatingSession">>,
     <<"ConnectionFailed", "Connecting">>, <<"ConnectionFailed", "Connected">>,
     <<"Disconnected", "StartingSession">>, <<"StartingSession", "CreatingSession">>,
     <<"CreatingSession", "Connecting">>, <<"Disconnected", "Connecting">>,
     <<"Connected", "Connecting">>}

ErrorCallbackStep ==
    \/ \E outcome \in Xr_SessionOutcomes \ {"Success"} : Xr_SessionHandler(outcome)
    \/ \E outcome \in Holo_SessionOutcomes \ {"Success"} : Holo_SessionHandler(outcome)
    \/ \E outcome \in Xr_PropertiesOutcomes \ {"Starting", "Ready"}, delay \in MinimumRetryDelays :
            Xr_GetPropertiesCallback(outcome, delay)
    \/ \E outcome \in Holo_PropertiesOutcomes \ {"Starting", "Ready"} :
            Holo_GetPropertiesCompleted(outcome)
    \/ \E status \in {"Connected", "Disconnected"}, error \in Results \ {"Success"} :
            \/ Xr_OnConnectionStatusChanged(status, error)
            \/ Holo_OnConnectionStatusChanged(status, error)

\* A step of an SDK callback that reports a failed model load.
FailedModelLoadStep ==
    \/ Xr_LoadModelCompleted("Failed")
    \/ Holo_LoadModelCompleted("Fail")

\* A step of OnConnectionStatusChanged for a Connecting or Disconnecting notification
\* whose result is not Success.
InterimErrorNotificationStep ==
    \E status \in {"Connecting", "Disconnecting"}, error \in Results \ {"Success"} :
        \/ Xr_OnConnectionStatusChanged(status, error)
        \/ Holo_OnConnectionStatusChanged(status, error)

\* C3, as claimed: every SDK-reported error, a failed model load included, moves
\* the status to ConnectionFailed.
C3_EveryErrorFails ==
    [][(ErrorCallbackStep \/ FailedModelLoadStep \/ InterimErrorNotificationStep)
          => m_currentStatus' = "ConnectionFailed"]_vars

\* C3, as the code has it: a failed session creation, a failed or erroneous
\* properties query and a Connected / Disconnected notification with a non-Success
\* result move the status to ConnectionFailed; a failed model load leaves the
\* status as it is and records its result for the "Failed to load model" line; a
\* Connecting notification sets the status to Connecting and a Disconnecting
\* notification leaves it, whatever their result.
C3_ErrorsFailExceptModelLoad ==
    [][/\ ErrorCallbackStep => m_currentStatus' = "ConnectionFailed"
       /\ FailedModelLoadStep =>
            /\ m_currentStatus' = m_currentStatus
            /\ m_modelLoadFinished' /\ m_modelLoadResult' = "Fail"
       /\ InterimErrorNotificationStep =>
            m_currentStatus' = (IF sdkConn' = "Connecting" THEN "Connecting"
                                                           ELSE m_currentStatus)]_vars

\* C3: a model load has failed while the status stays Connected.
C3_Witness ==
    /\ m_currentStatus = "Connected"
    /\ m_modelLoadFinished /\ m_modelLoadResult = "Fail"

\* The step of the main loop that rebuilds the status display (in the holographic
\* shell, when the display is marked as out of date).
UpdateStatusTextStep ==
    \/ Xr_UpdateARR_UpdateStatusText
    \/ Holo_Update_UpdateStatusText /\ m_needsStatusUpdate

\* C4: whenever the status is ConnectionFailed, the display UpdateStatusText builds
\* is enabled and starts with the lines "Failed to connect" and "Error: <message>".
C4_FailureIsDisplayed ==
    [][(UpdateStatusTextStep /\ m_currentStatus = "ConnectionFailed")
          => /\ m_statusDisplay'.textEnabled
             /\ Len(m_statusDisplay'.lines) >= 2
             /\ m_statusDisplay'.lines[1].text = <<"Failed to connect">>
             /\ m_statusDisplay'.lines[2].text = <<"Error: %s", m_statusMsg>>]_vars

\* C5: the connect request is issued at most once.
C5_ConnectOnce == sdkConnectCalls <= 1

\* C6: at most one session-properties query is in flight, a query counting as in
\* flight until its callback has run to its end.
C6_OneQueryInFlight == sdkQueriesInFlight <= 1

\* C6: a query is in flight after the callback of an earlier one has set the status.
C6_Witness ==
    /\ sdkQueriesInFlight = 1
    /\ sdkPc = "idle"
    /\ m_currentStatus = "ConnectionFailed"
    /\ m_statusMsg = "Session error"

\* A step that issues a session-properties query.
QueryIssuedStep == sdkQueriesInFlight' = sdkQueriesInFlight + 1

\* The time at which the previous query was issued or, if later, the session was set.
PreviousQueryTime ==
    IF sdkLastQueryTime > m_sessionStartingTime THEN sdkLastQueryTime
                                                 ELSE m_sessionStartingTime

\* C7, as claimed: a query is issued only when more than 10 seconds have elapsed
\* since the previous query was issued or the session was set.
C7_TenSecondInterval ==
    [][QueryIssuedStep => now - PreviousQueryTime > 10]_vars

\* C7, as the code has it: the holographic shell's threshold is the constant 10;
\* the OpenXR shell's threshold starts as 10 and is replaced, at the end of each
\* properties callback, by the minimum retry delay the SDK reports.  A query is
\* issued only when more than the shell's current threshold has elapsed since the
\* previous query was issued or the session was set.
C7_IntervalIsCurrentThreshold ==
    [][/\ QueryIssuedStep =>
            now - PreviousQueryTime >
                (IF shell = "Holo" THEN Holo_delayBetweenRESTCalls ELSE m_delayBetweenRESTCalls)
       /\ m_delayBetweenRESTCalls' # m_delayBetweenRESTCalls =>
            /\ Xr_GetPropertiesCallback_End
            /\ m_delayBetweenRESTCalls' = sdkArg.delay
       /\ shell = "Holo" => m_delayBetweenRESTCalls' = 10]_vars

\* C7: the OpenXR shell has issued a query less than 10 seconds after the previous one.
C7_Witness ==
    /\ shell = "OpenXr"
    /\ sdkQueriesInFlight = 1
    /\ m_delayBetweenRESTCalls < 10
    /\ sdkLastQueryTime > m_sessionStartingTime + 10

(***************************************************************************)
(* Specification of the OpenXR main loop of OpenXrProgram.                 *)
(***************************************************************************)
InitRun ==
    /\ ArrInit /\ shell = "OpenXr"
    /\ RunInit /\ m_optionalExtensions \in BOOLEAN
    /\ DisplayInit
    /\ FormatsInit /\ GamepadsInit /\ LocatorInit

NextRun ==
    \/ \E result \in XrResults \cup {"XR_ERROR_FORM_FACTOR_UNAVAILABLE"} :
            Run_InitializeSystem(result)
    \/ \E result \in XrResults : Run_InitializeSession(result)
    \/ Run_ProcessEvents
    \/ \E result \in XrResults : Run_PollEvent(result)
    \/ Run_RenderLoop
    \/ \E placed \in [{0, 1} -> HandInputs], result \in XrResults :
            Run_PollActions(placed, result)
    \/ Run_UpdateARR
    \/ \E shouldRender \in BOOLEAN, poseValid \in BOOLEAN, failAt \in {0, 1} :
            Run_RenderFrame(shouldRender, poseValid, failAt)
    \/ Run_PrepareSessionRestart
    \/ \E kind \in XrEventKinds : Runtime_QueueEvent(kind)

SpecRun == InitRun /\ [][NextRun]_vars

(***************************************************************************)
(* Properties of the main loop (specification SpecRun).                    *)
(***************************************************************************)

\* The step of ProcessEvents that handles a change of the session to `state`: the
\* event is the next of the queue and it is for the session the program holds.
StateChangeProcessed(state) ==
    /\ runPc = "PollEvent"
    /\ xrEvents # <<>>
    /\ IsStateChange(Head(xrEvents), state)
    /\ m_session # XR_NULL_HANDLE /\ m_session = Head(xrEvents).session
    /\ xrEvents' = Tail(xrEvents)

\* C8: xrBeginSession is called exactly by the steps that process a READY event
\* and xrEndSession exactly by those that process a STOPPING event; the former
\* sets m_sessionRunning unless the call fails (which ends the program), the latter
\* clears it, and no other step changes it.
C8_BeginEndFollowEvents ==
    [][/\ xrBeginSessionCalls' # xrBeginSessionCalls
            <=> StateChangeProcessed("XR_SESSION_STATE_READY")
       /\ xrEndSessionCalls' # xrEndSessionCalls
            <=> StateChangeProcessed("XR_SESSION_STATE_STOPPING")
       /\ xrBeginSessionCalls' \in {xrBeginSessionCalls, xrBeginSessionCalls + 1}
       /\ xrEndSessionCalls' \in {xrEndSessionCalls, xrEndSessionCalls + 1}
       /\ (StateChangeProcessed("XR_SESSION_STATE_READY") /\ runPc' # "Aborted")
            => m_sessionRunning'
       /\ StateChangeProcessed("XR_SESSION_STATE_STOPPING") => ~m_sessionRunning'
       /\ m_sessionRunning' # m_sessionRunning
            => \/ StateChangeProcessed("XR_SESSION_STATE_READY")
               \/ StateChangeProcessed("XR_SESSION_STATE_STOPPING")]_vars

\* C8: a session has been begun and ended, and is not running.
C8_Witness ==
    /\ xrBeginSessionCalls = 1
    /\ xrEndSessionCalls = 1
    /\ ~m_sessionRunning
    /\ m_sessionState = "XR_SESSION_STATE_STOPPING"
    /\ runPc = "RenderLoop"

\* Whether the ProcessEvents call under way, or the last one, has handled `event`.
Drained(event) ==
    \E i \in 1..Len(xrDrained) : xrDrained[i] = event

\* Whether `event` is the last exit event the ProcessEvents call has handled.
DrainedLast(event) ==
    xrDrained # <<>> /\ xrDrained[Len(xrDrained)] = event

C10_ExitingNeverRestarts ==
    [][(runPc = "RenderLoop" /\ runPc' # runPc /\ Drained("XR_SESSION_STATE_EXITING"))
          => runPc' = "Returned"]_vars

(***************************************************************************)
(* OpenXR calls that fail.                                                 *)
(***************************************************************************)

\* xrGetSystem finding no headset.
FormFactorUnavailable == Failure("xrGetSystem", "XR_ERROR_FORM_FACTOR_UNAVAILABLE")

\* xrCreateSpatialAnchorMSFT failing to create the anchor.
CreateSpatialAnchorFailed ==
    Failure("xrCreateSpatialAnchorMSFT", "XR_ERROR_CREATE_SPATIAL_ANCHOR_FAILED_MSFT")

\* C11, as stated: every failing OpenXR call aborts the run, except xrGetSystem
\* returning XR_ERROR_FORM_FACTOR_UNAVAILABLE, after which InitializeSystem goes
\* round its loop again; no other failing result is tolerated.
C11_OnlyMissingHeadsetTolerated ==
    /\ xrFailed \ {FormFactorUnavailable} # {} => runPc = "Aborted"
    /\ xrFailed = {FormFactorUnavailable} => runPc = "InitializeSystem"

\* C11, amended: every failing OpenXR call aborts the run, except two: xrGetSystem
\* returning XR_ERROR_FORM_FACTOR_UNAVAILABLE, after which InitializeSystem goes
\* round its loop again, and xrCreateSpatialAnchorMSFT returning
\* XR_ERROR_CREATE_SPATIAL_ANCHOR_FAILED_MSFT, after which PollActions goes on
\* with a hologram that has no space.
C11_TwoFailuresTolerated ==
    /\ xrFailed \ {FormFactorUnavailable, CreateSpatialAnchorFailed} # {}
           => runPc = "Aborted"
    /\ xrFailed = {FormFactorUnavailable} => runPc = "InitializeSystem"
    /\ xrFailed = {CreateSpatialAnchorFailed}
           => /\ runPc = "UpdateARR"
              /\ \E i \in 1..Len(m_holograms) : m_holograms[i] = "withoutSpace"

\* C11: PollActions has gone on after a failure to create an anchor.
C11_Witness ==
    /\ xrFailed = {CreateSpatialAnchorFailed}
    /\ runPc = "UpdateARR"
    /\ m_holograms # <<>>
    /\ m_holograms[Len(m_holograms)] = "withoutSpace"

\* A step of InitializeSystem: Run is at InitializeSystem with its precondition
\* met and the step is not the runtime queueing an event.
InitializeSystemStep ==
    /\ runPc = "InitializeSystem"
    /\ m_systemId = XR_NULL_SYSTEM_ID
    /\ xrEvents' = xrEvents

\* C12: InitializeSystem does not give up on a missing headset: when xrGetSystem
\* returns XR_ERROR_FORM_FACTOR_UNAVAILABLE it stays in its loop, with no system
\* id and without throwing, however often that has happened before; and when it
\* leaves the loop for InitializeSession the call has succeeded and the system id
\* is not null.
C12_RetriesUntilHeadset ==
    [][InitializeSystemStep
          => /\ xrFailed' = {FormFactorUnavailable}
                    => /\ runPc' = "InitializeSystem"
                       /\ m_systemId' = XR_NULL_SYSTEM_ID
                       /\ xrGetSystemRetries' = xrGetSystemRetries + 1
             /\ runPc' # "InitializeSystem"
                    => \/ /\ runPc' = "InitializeSession"
                          /\ xrFailed' = {}
                          /\ m_systemId' # XR_NULL_SYSTEM_ID
                       \/ /\ runPc' = "Aborted"
                          /\ xrFailed' # {}
                          /\ FormFactorUnavailable \notin xrFailed']_vars

\* C12: the headset is found after MaxRetries rounds that did not find it.
C12_Witness ==
    /\ runPc = "InitializeSession"
    /\ xrGetSystemRetries = MaxRetries
    /\ m_systemId # XR_NULL_SYSTEM_ID

\* C13: at most one session and one set of render resources exist at a time, and
\* the precondition checks of the initialisation never fail, also after a
\* restart: InitializeSystem is entered with a null system id, InitializeSession
\* with a system id and a null session, and CreateSwapchains, which it calls
\* once the session exists, with no render resources.
C13_OneSessionAtATime ==
    /\ Cardinality(xrLiveSessions) <= 1
    /\ xrLiveSessions = IF m_session = XR_NULL_HANDLE THEN {} ELSE {m_session}
    /\ m_renderResources => m_session # XR_NULL_HANDLE
    /\ runPc = "InitializeSystem" => m_systemId = XR_NULL_SYSTEM_ID
    /\ runPc = "InitializeSession"
           => /\ m_systemId # XR_NULL_SYSTEM_ID
              /\ m_session = XR_NULL_HANDLE
              /\ ~m_renderResources

\* C13: a second session has been created after a restart.
C13_Witness ==
    /\ runPc = "ProcessEvents"
    /\ xrSessionCount = 2
    /\ xrLiveSessions = {2}
    /\ m_session = 2
    /\ m_renderResources

\* C14: the holograms accumulate.  Every step other than PrepareSessionRestart
\* leaves the holograms it finds in the list where they are, so the list never
\* gets shorter during a session; PrepareSessionRestart empties the list.
C14_HologramsAccumulate ==
    [][IF runPc = "PrepareSessionRestart" /\ runPc' # runPc
       THEN m_holograms' = <<>>
       ELSE /\ Len(m_holograms') >= Len(m_holograms)
            /\ SubSeq(m_holograms', 1, Len(m_holograms)) = m_holograms]_vars

\* C14: the list of the second session holds the holograms placed in it and the
\* two cubes.
C14_Witness ==
    /\ xrSessionCount = 2
    /\ Len(m_holograms) = MaxHolograms + 2
    /\ m_mainCubeIndex.has_value

(***************************************************************************)
(* The StatusDisplay with a thread that sets the text and a thread that    *)
(* draws.                                                                  *)
(***************************************************************************)

InitDisplay ==
    /\ ArrInit /\ shell = "OpenXr"
    /\ RunInit /\ m_optionalExtensions = FALSE
    /\ DisplayInit
    /\ FormatsInit /\ GamepadsInit /\ LocatorInit

NextDisplay ==
    \/ \E call \in Calls : StatusDisplay_Lock(call)
    \/ ClearLines
    \/ SetLines_Resize
    \/ SetLines_Loop
    \/ UpdateLineText
    \/ AddLine
    \/ HasLine
    \/ StatusDisplay_Return
    \/ \E enabled \in BOOLEAN : SetTextEnabled(enabled)
    \/ Render_BeginDraw
    \/ Render_Lock
    \/ Render_Draw
    \/ Render_Unlock

SpecDisplay == InitDisplay /\ [][NextDisplay]_vars

(***************************************************************************)
(* Claims about the StatusDisplay.                                         *)
(***************************************************************************)

\* Whether a line other than the last of the array is aligned to the bottom.
AlignBottomBeforeLast(lines) ==
    \E k \in 1..(Len(lines) - 1) : lines[k].alignBottom

\* C15: SetLines fails its assertion whenever a line other than the last of the
\* array has alignBottom set, and does not when only the last line or no line
\* has: a call that fails it has such a line, a call that gets through its loop
\* has none, and the loop does not go past such a line.
C15_AlignBottomOnlyLast ==
    updOp.name = "SetLines"
        => /\ updPc = "AssertionFailed" => AlignBottomBeforeLast(updOp.lines)
           /\ updPc = "Return" => ~AlignBottomBeforeLast(updOp.lines)
           /\ updPc = "SetLines_Loop"
                  => \A k \in 1..updOp.i : ~updOp.lines[k].alignBottom \/ k = Len(updOp.lines)

\* C15: SetLines has failed its assertion on the first of two lines.
C15_Witness ==
    /\ updOp.name = "SetLines"
    /\ updPc = "AssertionFailed"
    /\ Len(updOp.lines) = 2
    /\ updOp.lines[1].alignBottom
    /\ updOp.i = 0

\* A step that calls UpdateLineInternal and gets past it.
UpdateLineInternalStep ==
    \/ updPc = "SetLines_Loop" /\ updOp'.i = updOp.i + 1
    \/ updPc = "UpdateLineText" /\ updPc' = "Return"
    \/ updPc = "AddLine" /\ updPc' = "Return"

\* The place in the list of the runtime line the step updates.
UpdatedIndex ==
    CASE updPc = "SetLines_Loop" -> updOp.i + 1
      [] updPc = "UpdateLineText" -> updOp.index + 1
      [] OTHER -> Len(m_lines) + 1

\* The runtime line the step updates, as it is before the step.
CachedLine ==
    IF UpdatedIndex <= Len(m_lines) THEN m_lines[UpdatedIndex] ELSE RuntimeLine

\* The line the step passes to UpdateLineInternal.
GivenLine ==
    CASE updPc = "SetLines_Loop" -> updOp.lines[updOp.i + 1]
      [] updPc = "UpdateLineText" ->
             StatusDisplay_Line(updOp.text, CachedLine.format, CachedLine.color,
                                CachedLine.lineHeightMultiplier, FALSE)
      [] OTHER -> updOp.lines[1]

\* C16: UpdateLineInternal makes the layout and the metrics of a line anew if and
\* only if the new text or the new format differs from the cached one; when both
\* are equal the cached layout and metrics are left as they are; the color, the
\* line-height multiplier and alignBottom are overwritten in either case.
C16_LayoutOnlyWhenChanged ==
    [][UpdateLineInternalStep
          => /\ dwLayoutCreated'
                    <=> (GivenLine.text # CachedLine.text \/ GivenLine.format # CachedLine.format)
             /\ dwLayoutCreated'
                    => /\ m_lines'[UpdatedIndex].layout
                              = CreateTextLayout(GivenLine.text, GivenLine.format)
                       /\ m_lines'[UpdatedIndex].metrics
                              = GetMetrics(m_lines'[UpdatedIndex].layout)
             /\ ~dwLayoutCreated'
                    => /\ m_lines'[UpdatedIndex].layout = CachedLine.layout
                       /\ m_lines'[UpdatedIndex].metrics = CachedLine.metrics
             /\ m_lines'[UpdatedIndex].text = GivenLine.text
             /\ m_lines'[UpdatedIndex].format = GivenLine.format
             /\ m_lines'[UpdatedIndex].color = GivenLine.color
             /\ m_lines'[UpdatedIndex].lineHeightMultiplier = GivenLine.lineHeightMultiplier
             /\ m_lines'[UpdatedIndex].alignBottom = GivenLine.alignBottom]_vars

\* C16: SetLines has given a line that had a layout another color, multiplier and
\* alignment and has made no layout.
C16_Witness ==
    /\ updOp.name = "SetLines"
    /\ updPc = "Return"
    /\ Len(updOp.lines) = 1
    /\ ~dwLayoutCreated
    /\ ~m_lines[1].layout.null
    /\ m_lines[1].color = "Red"
    /\ m_lines[1].lineHeightMultiplier = 12
    /\ m_lines[1].alignBottom

\* The thread that sets the text is between taking the lock in one of the five
\* operations and releasing it.
UpdateInLockedScope == updPc # "Idle"

\* Render is between taking the lock and releasing it.
RenderInLockedScope == renderPc \in {"Draw", "Unlock"}

\* C17: the line list is read and written under the one mutex: an operation of
\* the thread that sets the text is inside its locked scope only while that
\* thread holds the mutex, Render is inside its drawing loop only while the
\* drawing thread holds it, so the two are never inside together, and what a
\* Render under way has drawn is what the list holds, line for line.
C17_LinesUnderMutex ==
    /\ UpdateInLockedScope => m_lineMutex = "update"
    /\ RenderInLockedScope => m_lineMutex = "render"
    /\ ~(UpdateInLockedScope /\ RenderInLockedScope)
    /\ RenderInLockedScope
           => /\ Len(renderDrawn) <= Len(m_lines)
              /\ \A k \in 1..Len(renderDrawn) :
                    /\ renderDrawn[k].layout = m_lines[k].layout
                    /\ renderDrawn[k].color = m_lines[k].color

\* C17: Render is about to take the lock while SetLines has updated the first of
\* two lines.
C17_Witness ==
    /\ renderPc = "Lock"
    /\ updPc = "SetLines_Loop"
    /\ updOp.i = 1
    /\ Len(updOp.lines) = 2
    /\ m_lineMutex = "update"

\* C18: UpdateLineText(index, text) updates only the text of the line at the
\* index, with its layout and metrics: the format, the color, the line-height
\* multiplier and alignBottom of that line, the number of lines and every other
\* line are as before.
C18_OnlyTextUpdated ==
    [][(updPc = "UpdateLineText" /\ updPc' = "Return")
          => /\ Len(m_lines') = Len(m_lines)
             /\ \A k \in 1..Len(m_lines) : k # updOp.index + 1 => m_lines'[k] = m_lines[k]
             /\ m_lines'[updOp.index + 1].text = updOp.text
             /\ m_lines'[updOp.index + 1].format = m_lines[updOp.index + 1].format
             /\ m_lines'[updOp.index + 1].color = m_lines[updOp.index + 1].color
             /\ m_lines'[updOp.index + 1].lineHeightMultiplier
                    = m_lines[updOp.index + 1].lineHeightMultiplier
             /\ m_lines'[updOp.index + 1].alignBottom
                    = m_lines[updOp.index + 1].alignBottom]_vars

\* C19: AddLine appends one line at the end of the list and returns its index,
\* the number of lines before the call; the lines that were there are as
\* before, the new line is the given one, and HasLine afterwards is true for the
\* indices up to the one returned and for no other.
C19_AddLineAppends ==
    [][(updPc = "AddLine" /\ updPc' = "Return")
          => /\ Len(m_lines') = Len(m_lines) + 1
             /\ SubSeq(m_lines', 1, Len(m_lines)) = m_lines
             /\ updOp'.newIndex = Len(m_lines)
             /\ m_lines'[updOp'.newIndex + 1].text = updOp.lines[1].text
             /\ m_lines'[updOp'.newIndex + 1].format = updOp.lines[1].format
             /\ m_lines'[updOp'.newIndex + 1].color = updOp.lines[1].color
             /\ m_lines'[updOp'.newIndex + 1].lineHeightMultiplier
                    = updOp.lines[1].lineHeightMultiplier
             /\ m_lines'[updOp'.newIndex + 1].alignBottom = updOp.lines[1].alignBottom
             /\ \A index \in 0..(MaxLines + 1) :
                    HasLine_Value(m_lines', index) <=> index <= updOp'.newIndex]_vars

\* C19: AddLine has added a second line and returns the index 1.
C19_Witness ==
    /\ updOp.name = "AddLine"
    /\ updPc = "Return"
    /\ updOp.newIndex = 1
    /\ Len(m_lines) = 2

\* C20: SetLines replaces the lines: when it returns, the list holds as many
\* lines as the array given, with the text, format, color, line-height
\* multiplier and alignBottom of the array's lines in their order, whatever the
\* list held before.  When ClearLines returns the list is empty, and HasLine is
\* false for every index.
C20_SetLinesReplaces ==
    /\ (updOp.name = "SetLines" /\ updPc = "Return")
           => /\ Len(m_lines) = Len(updOp.lines)
              /\ \A k \in 1..Len(updOp.lines) :
                    /\ m_lines[k].text = updOp.lines[k].text
                    /\ m_lines[k].format = updOp.lines[k].format
                    /\ m_lines[k].color = updOp.lines[k].color
                    /\ m_lines[k].lineHeightMultiplier = updOp.lines[k].lineHeightMultiplier
                    /\ m_lines[k].alignBottom = updOp.lines[k].alignBottom
    /\ (updOp.name = "ClearLines" /\ updPc = "Return")
           => /\ Len(m_lines) = 0
              /\ \A index \in 0..(MaxLines + 1) : ~HasLine_Value(m_lines, index)

\* C20: SetLines has been called with two lines, the last aligned to the bottom,
\* and returns.
C20_Witness ==
    /\ updOp.name = "SetLines"
    /\ updPc = "Return"
    /\ Len(updOp.lines) = 2
    /\ Len(m_lines) = 2
    /\ m_lines[1].text = "B"
    /\ m_lines[2].alignBottom

(***************************************************************************)
(* Specification of the frames of OpenXrProgram: the main loop with a      *)
(* session that the runtime reports ready, and a frame in which any of its *)
(* OpenXR calls may fail.                                                  *)
(***************************************************************************)
NextFrame ==
    \/ Run_InitializeSystem("XR_SUCCESS")
    \/ Run_InitializeSession("XR_SUCCESS")
    \/ Run_ProcessEvents
    \/ Run_PollEvent("XR_SUCCESS")
    \/ Run_RenderLoop
    \/ \E placed \in [{0, 1} -> HandInputs] : Run_PollActions(placed, "XR_SUCCESS")
    \/ Run_UpdateARR
    \/ \E shouldRender \in BOOLEAN, poseValid \in BOOLEAN, failAt \in 0..MaxFrameCalls :
            Run_RenderFrame(shouldRender, poseValid, failAt)
    \/ Runtime_QueueEvent([type |-> "XR_TYPE_EVENT_DATA_SESSION_STATE_CHANGED",
                           state |-> "XR_SESSION_STATE_READY"])

SpecFrame == InitRun /\ [][NextFrame]_vars

(***************************************************************************)
(* Properties of a frame (specification SpecFrame).                        *)
(***************************************************************************)

\* The places in the calls of the last frame at which fn is called on arg.
FrameCallsOf(fn, arg) ==
    {i \in DOMAIN xrFrame.calls : xrFrame.calls[i] = FrameCall(fn, arg)}

\* RenderFrame has returned: Run is back at ProcessEvents with the frame's calls.
FrameReturned == runPc = "ProcessEvents" /\ xrFrame # NoFrame

\* RenderFrame has thrown at a failing call.
FrameThrown == runPc = "Aborted" /\ xrFrame # NoFrame

\* The last frame has made xrWaitFrame, xrBeginFrame and xrEndFrame once each, in
\* that order, and has submitted one layer if it was to be rendered with a valid
\* view pose, else none.
FrameWaitedBegunEnded ==
    /\ Cardinality(FrameCallsOf("xrWaitFrame", "session")) = 1
    /\ Cardinality(FrameCallsOf("xrBeginFrame", "session")) = 1
    /\ Cardinality(FrameCallsOf("xrEndFrame", "session")) = 1
    /\ \A w \in FrameCallsOf("xrWaitFrame", "session"),
          b \in FrameCallsOf("xrBeginFrame", "session"),
          e \in FrameCallsOf("xrEndFrame", "session") : w < b /\ b < e
    /\ xrFrame.layerCount = IF xrFrame.shouldRender /\ xrFrame.poseValid THEN 1 ELSE 0

\* C21, as stated: each RenderFrame performs xrWaitFrame, xrBeginFrame and
\* xrEndFrame exactly once each, in that order, and submits exactly one projection
\* layer when shouldRender holds and the located view pose is valid, none
\* otherwise.
C21_EveryFrameWaitsBeginsEnds ==
    xrFrame # NoFrame => FrameWaitedBegunEnded

\* C21, amended: each RenderFrame that returns has performed xrWaitFrame,
\* xrBeginFrame and xrEndFrame exactly once each, in that order, and has submitted
\* exactly one projection layer when shouldRender holds and the view pose is
\* valid, none otherwise; a RenderFrame in which an OpenXR call fails throws at
\* that call, having made each of the three at most once and in that order, and
\* submits nothing unless the failing call is xrEndFrame.
C21_ReturnedFrameWaitsBeginsEnds ==
    /\ FrameReturned => FrameWaitedBegunEnded
    /\ FrameThrown =>
          /\ Cardinality(FrameCallsOf("xrWaitFrame", "session")) = 1
          /\ Cardinality(FrameCallsOf("xrBeginFrame", "session")) <= 1
          /\ Cardinality(FrameCallsOf("xrEndFrame", "session")) <= 1
          /\ \A b \in FrameCallsOf("xrBeginFrame", "session") :
                \A w \in FrameCallsOf("xrWaitFrame", "session") : w < b
          /\ \A e \in FrameCallsOf("xrEndFrame", "session") :
                \E b \in FrameCallsOf("xrBeginFrame", "session") : b < e
          /\ FrameCallsOf("xrEndFrame", "session") = {} <=> xrFrame.layerCount = -1

\* C21: a frame was rendered with a valid view pose and has returned.
C21_Witness ==
    /\ FrameReturned
    /\ xrFrame.shouldRender /\ xrFrame.poseValid
    /\ xrFrame.layerCount = 1

(***************************************************************************)
(* Further properties of the remote-rendering glue (specification Spec).   *)
(***************************************************************************)

\* C22: the session status is queried until the session is reported Ready and not
\* afterwards: a step issues a session-properties query only while
\* m_sessionStarted is false, and a completed query that reports anything but
\* Ready leaves m_sessionStarted false, so the polling goes on.
C22_QueriedOnlyUntilReady ==
    [][/\ QueryIssuedStep => ~m_sessionStarted
       /\ (~m_sessionStarted /\ m_sessionStarted') => sdkArg'.status = "Ready"]_vars

(***************************************************************************)
(* Specification of the app space of OpenXrProgram: the main loop with     *)
(* every event of the runtime, no hologram placed and no failing call, and *)
(* the remote-rendering session's graphics binding arriving at some frame. *)
(***************************************************************************)
NextAppSpace ==
    \/ Run_InitializeSystem("XR_SUCCESS")
    \/ Run_InitializeSession("XR_SUCCESS")
    \/ Run_ProcessEvents
    \/ Run_PollEvent("XR_SUCCESS")
    \/ Run_RenderLoop
    \/ Run_PollActions([side \in {0, 1} |-> "NotPlaced"], "XR_SUCCESS")
    \/ Run_UpdateARR
    \/ SetNewSession_GraphicsBinding
    \/ \E shouldRender \in BOOLEAN, poseValid \in BOOLEAN :
            Run_RenderFrame(shouldRender, poseValid, 0)
    \/ Run_PrepareSessionRestart
    \/ \E kind \in XrEventKinds : Runtime_QueueEvent(kind)

SpecAppSpace == InitRun /\ [][NextAppSpace]_vars

\* C23: the graphics binding is given the coordinate system again whenever it
\* changes: once UpdateARR has run with the graphics binding there, the app space
\* the binding was last given is the current one, also after a session restart
\* has created the app space anew.
C23_BindingHasCurrentAppSpace ==
    (runPc = "RenderFrame" /\ m_graphicsBinding) => sdkAppSpace = m_appSpace

\* The planes the shell gives to SetNearAndFarPlane in the frame under way.
SetNearAndFarPlane == IF shell = "OpenXr" THEN Xr_SetNearAndFarPlane ELSE Holo_SetNearAndFarPlane

\* The main thread is at the end of a frame's update and the shell is connected:
\* the update goes on to set the camera planes.
CameraSettingsDue ==
    /\ mainPc \in {"UpdateARR_UpdateStatusText", "Update_UpdateStatusText"}
    /\ m_isConnected

\* C24: whenever the shell is connected, the near plane it gives to
\* SetNearAndFarPlane is smaller than the far plane.
C24_NearBelowFar ==
    CameraSettingsDue => SetNearAndFarPlane.near < SetNearAndFarPlane.far

(***************************************************************************)
(* Further properties of the main loop (specification SpecRun).            *)
(***************************************************************************)

\* C25: PollActions and RenderFrame are executed only on a session that has been
\* begun and not ended, also after a restart: whenever Run is about to call
\* PollActions or RenderFrame, xrBeginSession has succeeded on m_session and
\* xrEndSession has not been called on it since.
C25_FramesOnlyOnBegunSession ==
    runPc \in {"PollActions", "RenderFrame"} => m_session \in xrBegunSessions

\* C26: while m_sessionRunning is false Run calls neither PollActions, UpdateARR
\* nor RenderFrame, so no frame is waited on, begun or ended outside a running
\* session: the session of a frame has been begun and not ended.
C26_NoFrameOutsideRunningSession ==
    /\ runPc \in {"PollActions", "UpdateARR", "RenderFrame"} => m_sessionRunning
    /\ xrFrame # NoFrame => m_session \in xrBegunSessions

\* A round of the event loop of ProcessEvents: Run is in the loop and the step is
\* not the runtime queueing an event.
PollEventStep == runPc = "PollEvent" /\ Len(xrEvents') <= Len(xrEvents)

\* The next event xrPollEvent returns is XR_TYPE_EVENT_DATA_INSTANCE_LOSS_PENDING.
InstanceLossAhead ==
    xrEvents # <<>> /\ Head(xrEvents).type = "XR_TYPE_EVENT_DATA_INSTANCE_LOSS_PENDING"

ImageBalanced(handle) ==
    /\ Cardinality(FrameCallsOf("xrAcquireSwapchainImage", handle)) = 1
    /\ Cardinality(FrameCallsOf("xrWaitSwapchainImage", handle)) = 1
    /\ Cardinality(FrameCallsOf("xrReleaseSwapchainImage", handle)) = 1
    /\ \A a \in FrameCallsOf("xrAcquireSwapchainImage", handle),
          w \in FrameCallsOf("xrWaitSwapchainImage", handle),
          r \in FrameCallsOf("xrReleaseSwapchainImage", handle),
          e \in FrameCallsOf("xrEndFrame", "session") : a < w /\ w < r /\ r < e

\* The last frame has not touched the swapchain image of `handle`.
ImageUntouched(handle) ==
    /\ FrameCallsOf("xrAcquireSwapchainImage", handle) = {}
    /\ FrameCallsOf("xrWaitSwapchainImage", handle) = {}
    /\ FrameCallsOf("xrReleaseSwapchainImage", handle) = {}

\* C28: the use of the swapchain images is balanced within a frame: a RenderFrame
\* that returns has, when RenderLayer rendered (shouldRender and a valid view
\* pose), acquired and waited for one color and one depth image and released
\* both before xrEndFrame, and has acquired none otherwise; so no image stays
\* acquired from one frame to the next.
C28_ImagesBalanced ==
    FrameReturned =>
        \A handle \in {"color", "depth"} :
            IF xrFrame.shouldRender /\ xrFrame.poseValid
            THEN ImageBalanced(handle)
            ELSE ImageUntouched(handle)

\* C28: a frame has returned after RenderLayer acquired and released the images.
C28_Witness ==
    /\ FrameReturned
    /\ FrameCallsOf("xrAcquireSwapchainImage", "color") # {}
    /\ FrameCallsOf("xrReleaseSwapchainImage", "depth") # {}

(***************************************************************************)
(* Properties of the callbacks' interleavings (specification Spec).        *)
(***************************************************************************)

\* A step of the per-frame update that invokes StartModelLoading.
StartModelLoadingStep == mainPc' # mainPc /\ m_modelLoadTriggered' /\ ~m_modelLoadTriggered

\* C29: StartModelLoading is never invoked after a Disconnected notification has
\* started being processed, whatever the interleaving of the connection-status
\* callback with the per-frame update: the update invokes it only while the last
\* notification the SDK has delivered is not Disconnected.
C29_NoLoadAfterDisconnected ==
    [][StartModelLoadingStep => sdkConn # "Disconnected"]_vars

\* The CreatingSession assignment that follows the asynchronous create request,
\* made when the request's completion callback has already run.
CreatingSessionAfterCallbackStep ==
    /\ mainPc \in {"InitARR_SetNewState", "Constructor_SetNewState"}
    /\ mainPc' # mainPc
    /\ ~sdkCreatePending

\* C30: the state set by the session-creation completion callback, StartingSession
\* or ConnectionFailed, is never overwritten by the CreatingSession assignment
\* that follows the asynchronous request, whenever the callback runs: if the
\* callback has run first, the assignment leaves the status as it is.
C30_CallbackStateKept ==
    [][CreatingSessionAfterCallbackStep => m_currentStatus' = m_currentStatus]_vars

(***************************************************************************)
(* C31: status updates of HolographicAppMain.                              *)
(***************************************************************************)

\* A step of HolographicAppMain that changes the connection status or the
\* model-load progress, or in which a model load completes.
Holo_StatusChangeStep ==
    /\ shell = "Holo"
    /\ \/ m_currentStatus' # m_currentStatus
       \/ m_modelLoadingProgress' # m_modelLoadingProgress
       \/ sdkLoadsInFlight' < sdkLoadsInFlight

\* C31: in HolographicAppMain every change of the connection status or of the
\* model-load progress, and every model-load completion, raises
\* m_needsStatusUpdate (so that a later Update refreshes the status text and a
\* failed load is shown as "Failed to load model").
C31_ChangesRaiseStatusUpdate ==
    [][Holo_StatusChangeStep => m_needsStatusUpdate']_vars

(***************************************************************************)
(* C32: the display UpdateStatusText leaves behind.                        *)
(***************************************************************************)

\* The number of status lines of a connection status.
StatusLineCount(status) ==
    IF status \in {"StartingSession", "ConnectionFailed"} THEN 2 ELSE 1

C33_AlignBottomLastOfList ==
    updPc = "Idle" => ~AlignBottomBeforeLast(m_lines)

(***************************************************************************)
(* C34: the layouts of the lines.                                          *)
(***************************************************************************)

\* Whether the layout and the metrics of a runtime line are those of its text in
\* its format.
LayoutIsCurrent(runtimeLine) ==
    /\ runtimeLine.layout = CreateTextLayout(runtimeLine.text, runtimeLine.format)
    /\ runtimeLine.metrics = GetMetrics(runtimeLine.layout)

\* C34: between the calls of AddLine, SetLines and UpdateLineText, when Render can
\* take the mutex and draw, every line of the list has a layout, and the layout
\* and the metrics are those of the line's current text and format.
C34_EveryLineHasItsLayout ==
    updPc = "Idle" => \A k \in DOMAIN m_lines : LayoutIsCurrent(m_lines[k])

(***************************************************************************)
(* Specification of the placements of OpenXrProgram: the main loop with a  *)
(* session that the runtime reports ready, frames without a failing call,  *)
(* and hands that press the place action with a valid or an invalid pose.  *)
(***************************************************************************)
NextPlace ==
    \/ Run_InitializeSystem("XR_SUCCESS")
    \/ Run_InitializeSession("XR_SUCCESS")
    \/ Run_ProcessEvents
    \/ Run_PollEvent("XR_SUCCESS")
    \/ Run_RenderLoop
    \/ \E placed \in [{0, 1} -> PlaceInputs], result \in XrResults :
            Run_PollActions(placed, result)
    \/ Run_UpdateARR
    \/ \E shouldRender \in BOOLEAN, poseValid \in BOOLEAN :
            Run_RenderFrame(shouldRender, poseValid, 0)
    \/ Runtime_QueueEvent([type |-> "XR_TYPE_EVENT_DATA_SESSION_STATE_CHANGED",
                           state |-> "XR_SESSION_STATE_READY"])

SpecPlace == InitRun /\ [][NextPlace]_vars

\* The hands whose place action is pressed, and those of them whose pose is valid.
PressedHands(placed) == {side \in {0, 1} : placed[side] # "NotPlaced"}
ValidHands(placed) == {side \in PressedHands(placed) : placed[side] # "PoseInvalid"}

\* What C35 says of a PollActions whose hands do as placed says: one hologram is
\* appended for every pressed hand with a valid pose and none for the others, and
\* every pressed hand is vibrated.
PlacedAndVibrated(placed) ==
    /\ Len(m_holograms') = Len(m_holograms) + Cardinality(ValidHands(placed))
    /\ SubSeq(m_holograms', 1, Len(m_holograms)) = m_holograms
    /\ xrVibrated' = PressedHands(placed)

\* C35, as claimed: when the place action of a hand is pressed, exactly one
\* hologram is appended to the list if the hand's pose is valid and none if it is
\* not, and the hand is vibrated in both cases.
C35_PressedHandPlacesAndVibrates ==
    [][\A placed \in [{0, 1} -> PlaceInputs] :
          Run_PollActions(placed, "XR_SUCCESS") => PlacedAndVibrated(placed)]_vars

\* C35, as the code has it: the same of every PollActions that returns.  A
\* CreateHologram that throws (a failed xrCreateReferenceSpace, or a failed
\* xrCreateSpatialAnchorMSFT other than
\* XR_ERROR_CREATE_SPATIAL_ANCHOR_FAILED_MSFT) ends PollActions at that hand: no
\* hologram is appended for it and it is not vibrated, and the hand after it is
\* not looked at.
C35_ReturningPollActionsPlacesAndVibrates ==
    [][\A placed \in [{0, 1} -> PlaceInputs] :
          (Run_PollActions(placed, "XR_SUCCESS") /\ runPc' # "Aborted")
              => PlacedAndVibrated(placed)]_vars

\* C35: in the first PollActions of a session both hands have pressed the place
\* action and have been vibrated, and one hologram has been placed: the pose of
\* the other hand was not valid.
C35_Witness ==
    /\ runPc = "UpdateARR"
    /\ xrVibrated = {0, 1}
    /\ Len(m_holograms) = 1
    /\ m_holograms[1] \in {"anchored", "inAppSpace"}

(***************************************************************************)
(* C36: the indices of the main cube and the spinning cube.                *)
(***************************************************************************)

\* Whether the optional index, if set, is the place of the hologram in the list
\* (the list of the model starts at 1, the vector at 0).
IndexOfHologram(index, hologram) ==
    index.has_value
        => /\ index.value < Len(m_holograms)
           /\ m_holograms[index.value + 1] = hologram

\* The number of times the hologram is in the list.
HologramCount(hologram) ==
    Cardinality({k \in DOMAIN m_holograms : m_holograms[k] = hologram})

\* C36: whenever the indices of the main cube and of the spinning cube are set
\* they are valid and distinct indices into the list of holograms, that of the
\* main cube and that of the spinning cube, so that UpdateSpinningCube never
\* indexes the list out of range; and the list, which is emptied at a session
\* restart, holds each of the two cubes at most once: they are initialised at
\* most once per session.
C36_CubeIndicesValid ==
    /\ IndexOfHologram(m_mainCubeIndex, "mainCube")
    /\ IndexOfHologram(m_spinningCubeIndex, "spinningCube")
    /\ (m_mainCubeIndex.has_value /\ m_spinningCubeIndex.has_value)
           => m_mainCubeIndex.value # m_spinningCubeIndex.value
    /\ HologramCount("mainCube") <= 1
    /\ HologramCount("spinningCube") <= 1

\* C36: in a session made after a restart the two cubes have been initialised
\* behind a hologram the user placed before the session's first frame.
C36_Witness ==
    /\ xrSessionCount >= 2
    /\ m_holograms = <<"inAppSpace", "mainCube", "spinningCube">>
    /\ m_mainCubeIndex = Optional(1)
    /\ m_spinningCubeIndex = Optional(2)

(***************************************************************************)
(* Specification of SelectSwapchainPixelFormats: any formats enumerated by *)
(* the runtime and any formats supported by the graphics plugin.           *)
(***************************************************************************)
InitFormats ==
    /\ ArrInit /\ shell = "OpenXr"
    /\ RunInit /\ m_optionalExtensions = FALSE
    /\ DisplayInit
    /\ GamepadsInit /\ LocatorInit
    /\ swapchainFormats \in SeqUpTo(RuntimeFormats, MaxFormatCount)
    /\ supportedColorFormats \in SeqUpTo(DxgiFormats, MaxFormatCount)
    /\ supportedDepthFormats \in SeqUpTo(DxgiFormats, MaxFormatCount)
    /\ selectedFormats = NoFormats
    /\ fmtPc = "SelectSwapchainPixelFormats"

NextFormats ==
    \E result \in XrResults : SelectSwapchainPixelFormats(result)

SpecFormats == InitFormats /\ [][NextFormats]_vars

\* The places of the runtime's list whose format the application supports.
SharedPlaces(supported) ==
    {i \in DOMAIN swapchainFormats :
        \E j \in DOMAIN supported : swapchainFormats[i] = FromDxgiFormat(supported[j])}

\* The format of the runtime's list at the least of the places, which is one of
\* the application's.
FirstShared(supported) ==
    CHOOSE format \in DxgiFormats :
        FromDxgiFormat(format) = swapchainFormats[CHOOSE i \in SharedPlaces(supported) :
                                               \A k \in SharedPlaces(supported) : i <= k]

\* C37: once the runtime's formats are enumerated, SelectSwapchainPixelFormats
\* throws exactly when the runtime's list shares no format with the supported
\* color formats or none with the supported depth formats, and else returns for
\* color and for depth the first format in the runtime's order that is in the
\* application's list.
C37_FirstRuntimePreferredFormat ==
    (fmtPc = "Returned" /\ selectedFormats.failed # "xrEnumerateSwapchainFormats")
        => /\ selectedFormats.thrown
                  <=> (SharedPlaces(supportedColorFormats) = {}
                          \/ SharedPlaces(supportedDepthFormats) = {})
           /\ ~selectedFormats.thrown
                  => /\ selectedFormats.color = FirstShared(supportedColorFormats)
                     /\ selectedFormats.depth = FirstShared(supportedDepthFormats)

\* C37: the runtime prefers D32_FLOAT to B8G8R8A8_UNORM; the color format
\* selected is the second of the runtime's list and the second of the
\* application's, the depth format the first of the runtime's list.
C37_Witness ==
    /\ fmtPc = "Returned" /\ ~selectedFormats.thrown
    /\ swapchainFormats = <<FromDxgiFormat(40), FromDxgiFormat(87)>>
    /\ supportedColorFormats = <<28, 87>>
    /\ supportedDepthFormats = <<40>>
    /\ selectedFormats.color = 87
    /\ selectedFormats.depth = 40

(***************************************************************************)
(* Specification of the gamepad list: a HolographicAppMain constructed on  *)
(* a system with any gamepads connected, then any GamepadAdded and         *)
(* GamepadRemoved events.                                                  *)
(***************************************************************************)
\* The orders in which Gamepad::Gamepads() may enumerate the gamepads S.
Enumerations(S) ==
    {seq \in [1..Cardinality(S) -> S] : \A g \in S : \E i \in DOMAIN seq : seq[i] = g}

InitGamepads ==
    /\ ArrInit /\ shell = "Holo"
    /\ RunInit /\ m_optionalExtensions = FALSE
    /\ DisplayInit
    /\ FormatsInit /\ LocatorInit
    /\ m_gamepads = <<>>
    /\ padPc = "Constructor"
    /\ sysGamepads \in SUBSET (1..MaxGamepads)
    /\ padSnapshot \in Enumerations(sysGamepads)
    /\ padEvent = [event |-> "", args |-> 0, connected |-> FALSE]

NextGamepads ==
    \/ Holo_Constructor_Gamepads
    \/ \E args \in 1..MaxGamepads : Holo_OnGamepadAdded(args)
    \/ \E args \in 1..MaxGamepads : Holo_OnGamepadRemoved(args)

SpecGamepads == InitGamepads /\ [][NextGamepads]_vars

\* The number of places of the gamepad list that hold the gamepad g.
TimesListed(g) == Cardinality({i \in DOMAIN m_gamepads : m_gamepads[i].gamepad = g})

C38_WitnessRemoved ==
    /\ padPc = "Running"
    /\ padEvent.event = "GamepadRemoved" /\ padEvent.connected
    /\ TimesListed(padEvent.args) = 0
    /\ Len(m_gamepads) = 2

(***************************************************************************)
(* Specification of the spatial locator: the constructor's call of         *)
(* OnHolographicDisplayIsAvailableChanged, SetHolographicSpace, and any    *)
(* IsAvailableChanged events, each finding any locator or none.            *)
(***************************************************************************)
InitLocator ==
    /\ ArrInit /\ shell = "Holo"
    /\ RunInit /\ m_optionalExtensions = FALSE
    /\ DisplayInit
    /\ FormatsInit /\ GamepadsInit
    /\ m_canGetDefaultHolographicDisplay \in BOOLEAN
    /\ m_spatialLocator = NoLocator
    /\ m_stationaryReferenceFrame = NoReferenceFrame
    /\ m_locatabilityChangedToken = 0
    /\ locHandlers = {}
    /\ locRegistrations = 0
    /\ locPc = "Constructor"
    /\ locCalled = [held |-> NoLocator, found |-> NoLocator]

NextLocator ==
    \/ \E spatialLocator \in NoLocator..MaxLocators :
            Holo_Constructor_DisplayIsAvailableChanged(spatialLocator)
    \/ Holo_SetHolographicSpace_Unregister
    \/ \E spatialLocator \in NoLocator..MaxLocators :
            Holo_OnHolographicDisplayIsAvailableChanged(spatialLocator)

SpecLocator == InitLocator /\ [][NextLocator]_vars

\* A step that is a call of OnHolographicDisplayIsAvailableChanged.
Holo_DisplayIsAvailableChangedStep ==
    \E spatialLocator \in NoLocator..MaxLocators :
        \/ Holo_Constructor_DisplayIsAvailableChanged(spatialLocator)
        \/ Holo_OnHolographicDisplayIsAvailableChanged(spatialLocator)

\* C39: after every call of OnHolographicDisplayIsAvailableChanged the stationary
\* reference frame is non-null exactly when a spatial locator is held, and a
\* non-null frame was created from the locator held; when the call replaces or
\* disconnects the locator, the frame held before is gone and the locatability
\* handler is registered on the new locator, once, and on no other.
C39_FrameOfHeldLocator ==
    [][Holo_DisplayIsAvailableChangedStep =>
        /\ m_stationaryReferenceFrame'.null <=> m_spatialLocator' = NoLocator
        /\ ~m_stationaryReferenceFrame'.null =>
               m_stationaryReferenceFrame'.locator = m_spatialLocator'
        /\ m_spatialLocator' # m_spatialLocator =>
               /\ m_stationaryReferenceFrame.null
                    \/ m_stationaryReferenceFrame' # m_stationaryReferenceFrame
               /\ locHandlers' =
                      IF m_spatialLocator' = NoLocator
                      THEN {}
                      ELSE {[locator |-> m_spatialLocator',
                             token |-> m_locatabilityChangedToken']}]_vars

\* C39: the last call found locator 2 while locator 1 was held: locator 2 is
\* held, the frame is one made from it, and the only handler is on locator 2.
C39_Witness ==
    /\ locCalled = [held |-> 1, found |-> 2]
    /\ m_spatialLocator = 2
    /\ ~m_stationaryReferenceFrame.null
    /\ m_stationaryReferenceFrame.locator = 2
    /\ locHandlers = {[locator |-> 2, token |-> m_locatabilityChangedToken]}

====
